---- MODULE Spec2Model ----
(***************************************************************************)
(* Verification model of the AES FORGE front end (syaz28/aes-project).     *)
(*                                                                         *)
(*  - App / ResearchParameters / ParameterPresets: the matrix              *)
(*    configuration, the S-box imported from a spreadsheet and the         *)
(*    validation of that S-box (handleExcelFileSelect).                    *)
(*  - ComparisonView: determineWinner and calculateRanking.                *)
(*                                                                         *)
(* The handlers that only rewrite the bytes of the selected matrix         *)
(* (increment, decrement, the editor of the custom tab) are not modelled.  *)
(*                                                                         *)
(* JavaScript values are modelled as records of one shape,                 *)
(*   [t, int, half, s],                                                    *)
(* t being the JavaScript type: a number is int (+ 0.5 when half), a       *)
(* string is the sequence s of its characters.  A nullable React state is  *)
(* Null (<<>>) or Some(x) (<<x>>).                                         *)
(***************************************************************************)
EXTENDS Integers, Sequences, FiniteSets, TLC

\* ------------------------------------------------------------------------
\* Bounds of the model
\* ------------------------------------------------------------------------

\* number of presets kept in savedPresets
MaxPresets == 1

\* number of point edits applied to a table when a file for the validation is
\* generated
MaxEdits == 1

\* the longest key string that is drawn unit by unit
MaxKeyLen == 2

\* number of analyses the user requests in the control panel
MaxRequests == 3

\* metric values offered to determineWinner: undefined, null, NaN and the
\* numbers -0.5, 0, 0.5, ... MaxTwice / 2
MaxTwice == 4

\* metric values offered to calculateRanking: undefined, null and the
\* numbers 0 .. MaxRankValue
MaxRankValue == 2

\* ------------------------------------------------------------------------
\* Program constants
\* ------------------------------------------------------------------------

SboxSize == 256

MaxByte == 255

MaxDuplicatesShown == 5
KeyLength == 32

\* ------------------------------------------------------------------------
\* JavaScript values
\* ------------------------------------------------------------------------

Null == <<>>

Some(x) == <<x>>

Num(i) == [t |-> "number", int |-> i, half |-> FALSE, s |-> <<>>]

HalfNum(i) == [t |-> "number", int |-> i, half |-> TRUE, s |-> <<>>]

NaN == [t |-> "NaN", int |-> 0, half |-> FALSE, s |-> <<>>]

Str(chars) == [t |-> "string", int |-> 0, half |-> FALSE, s |-> chars]

Undefined == [t |-> "undefined", int |-> 0, half |-> FALSE, s |-> <<>>]

NullCell == [t |-> "null", int |-> 0, half |-> FALSE, s |-> <<>>]

BoolTrue == [t |-> "boolean", int |-> 1, half |-> FALSE, s |-> <<>>]

\* a sequence given by a function, as a tuple (its elements evaluated once)
ArrayFrom(f) == f \o <<>>

Digits == <<"0", "1", "2", "3", "4", "5", "6", "7", "8", "9">>

IsDigit(c) == \E d \in 1..10 : Digits[d] = c

DigitVal(c) == (CHOOSE d \in 1..10 : Digits[d] = c) - 1

IsSpace(c) == c \in {" ", "\t", "\n"}

\* parseInt(cell, 10): leading white space is skipped, an optional sign is
\* read, then the longest prefix of decimal digits; NaN when it is empty.
RECURSIVE SkipSpace(_)
SkipSpace(chars) ==
    IF chars # <<>> /\ IsSpace(Head(chars)) THEN SkipSpace(Tail(chars)) ELSE chars

RECURSIVE ReadDigits(_, _, _)
ReadDigits(chars, acc, seen) ==
    IF chars # <<>> /\ IsDigit(Head(chars))
    THEN ReadDigits(Tail(chars), 10 * acc + DigitVal(Head(chars)), TRUE)
    ELSE [value |-> acc, seen |-> seen]

parseInt(chars) ==
    LET body == SkipSpace(chars)
        neg  == body # <<>> /\ Head(body) = "-"
        rest == IF body # <<>> /\ Head(body) \in {"-", "+"} THEN Tail(body) ELSE body
        r    == ReadDigits(rest, 0, FALSE)
    IN  IF r.seen THEN Num(IF neg THEN 0 - r.value ELSE r.value) ELSE NaN

\* a test no value passes
isNaNNever(x) == FALSE

\* isNaN(x): true of NaN only among the values a cell can hold after parsing
isNaN(x) == x.t = "NaN"

\* Number.isInteger(x): false of every non-number
NumberIsInteger(x) == x.t = "number" /\ ~x.half

\* x < 0 and x > 255 with the boolean true coerced to 1
LessThanZero(x) == x.t = "number" /\ x.int < 0

GreaterThan255(x) == x.t = "number" /\ (x.int > MaxByte \/ (x.int = MaxByte /\ x.half))

\* ------------------------------------------------------------------------
\* Spreadsheet files offered to the import
\* ------------------------------------------------------------------------

\* the tables the files start from: three permutations of 0..255, and three
\* tables of 256 values in 0..255 the last 6, 5 and 3 of which repeat the first
PermutationKinds == {"identity", "reverse", "affine"}

RepeatingKinds == {"repeat6", "repeat5", "repeat3"}

BaseTable(kind) ==
    ArrayFrom([i \in 1..SboxSize |->
                 Num(CASE kind = "identity" -> i - 1
                       [] kind = "reverse"  -> SboxSize - i
                       [] kind = "repeat6"  -> (i - 1) % (SboxSize - 6)
                       [] kind = "repeat5"  -> (i - 1) % (SboxSize - 5)
                       [] kind = "repeat3"  -> (i - 1) % (SboxSize - 3)
                       [] OTHER             -> (7 * (i - 1) + 3) % SboxSize)])

\* the cells an edit writes: numbers in and out of range, a fraction, a
\* boolean, strings that parse and strings that do not, empty cells
EditCells ==
    { Num(5), Num(256), Num(0 - 1), HalfNum(7), BoolTrue,
      Str(<<"1", "2">>), Str(<<" ", "9", "x">>), Str(<<"x">>), Str(<<>>),
      Undefined, NullCell }

EditPositions == {10, 256}

EditSet ==
    [op : {"set", "ins"}, pos : EditPositions, cell : EditCells]
      \cup [op : {"del"}, pos : EditPositions, cell : {Undefined}]

EditSeqs(n) == UNION {[1..k -> EditSet] : k \in 0..n}

Shapes == {"16x16", "1xN", "Nx1", "ragged"}

\* a point edit of a table: a cell set, inserted or deleted
ApplyEdit(cells, e) ==
    CASE e.op = "set" -> [cells EXCEPT ![e.pos] = e.cell]
      [] e.op = "ins" -> SubSeq(cells, 1, e.pos - 1) \o <<e.cell>>
                           \o SubSeq(cells, e.pos, Len(cells))
      [] OTHER        -> SubSeq(cells, 1, e.pos - 1)
                           \o SubSeq(cells, e.pos + 1, Len(cells))

RECURSIVE ApplyEdits(_, _)
ApplyEdits(cells, edits) ==
    IF edits = <<>> THEN cells
    ELSE ApplyEdits(ApplyEdit(cells, Head(edits)), Tail(edits))

\* the sheet as sheet_to_json(sheet, {header: 1}) returns it: an array of rows
Chunk(cells, w) ==
    ArrayFrom([r \in 1..((Len(cells) + w - 1) \div w) |->
                 SubSeq(cells, (r - 1) * w + 1,
                        IF r * w < Len(cells) THEN r * w ELSE Len(cells))])

SheetRows(cells, shape) ==
    CASE shape = "16x16" -> Chunk(cells, 16)
      [] shape = "1xN"   -> <<cells>>
      [] shape = "Nx1"   -> Chunk(cells, 1)
      [] OTHER           -> <<SubSeq(cells, 1, 3), <<>>>>
                              \o Chunk(SubSeq(cells, 4, Len(cells)), 50)

FileNames == {"sbox_a.xlsx", "sbox_b.xlsx"}

\* a file is described by how its sheet is generated; readable = FALSE is a
\* file XLSX.read throws on
FilesOf(names, kinds, shapes, edits) ==
    [name : names, base : kinds, shape : shapes, edits : edits, readable : {TRUE}]
      \cup [name : names, base : {"identity"}, shape : {"16x16"},
            edits : {<<>>}, readable : {FALSE}]

\* the cells of the sheet, row after row
Cells(file) == ApplyEdits(BaseTable(file.base), file.edits)

jsonData(file) == SheetRows(Cells(file), file.shape)

\* ------------------------------------------------------------------------
\* handleExcelFileSelect: flattening and validation
\* ------------------------------------------------------------------------

\* a test of the cell's truth, which the number 0 fails too
KeepsTruthyCell(cell) ==
    /\ cell.t # "undefined"
    /\ cell.t # "null"
    /\ ~(cell.t = "string" /\ cell.s = <<>>)
    /\ cell # Num(0)

KeepsCell(cell) ==
    /\ cell.t # "undefined"
    /\ cell.t # "null"
    /\ ~(cell.t = "string" /\ cell.s = <<>>)

CellNumber(cell) == IF cell.t = "string" THEN parseInt(cell.s) ELSE cell

\* the inner loop over the cells row[lo..hi]: what it pushes onto flatArray
RECURSIVE FlattenRow(_, _, _)
FlattenRow(row, lo, hi) ==
    IF lo > hi THEN <<>>
    ELSE IF lo = hi
    THEN IF KeepsCell(row[lo]) /\ ~isNaN(CellNumber(row[lo]))
         THEN <<CellNumber(row[lo])>> ELSE <<>>
    ELSE LET mid == (lo + hi) \div 2
         IN  FlattenRow(row, lo, mid) \o FlattenRow(row, mid + 1, hi)

\* the outer loop over the rows jsonData[lo..hi]
RECURSIVE FlattenRows(_, _, _)
FlattenRows(rows, lo, hi) ==
    IF lo > hi THEN <<>>
    ELSE IF lo = hi THEN FlattenRow(rows[lo], 1, Len(rows[lo]))
    ELSE LET mid == (lo + hi) \div 2
         IN  FlattenRows(rows, lo, mid) \o FlattenRows(rows, mid + 1, hi)

FlattenSheet(rows) == FlattenRows(rows, 1, Len(rows))

InvalidValue(x) == LessThanZero(x) \/ GreaterThan255(x) \/ ~NumberIsInteger(x)

FirstInvalid(flatArray) ==
    IF \E i \in 1..Len(flatArray) : InvalidValue(flatArray[i])
    THEN CHOOSE i \in 1..Len(flatArray) :
            /\ InvalidValue(flatArray[i])
            /\ \A j \in 1..(i - 1) : ~InvalidValue(flatArray[j])
    ELSE 0

\* the duplicates array: the values met again while flatArray is walked, in
\* the order they are met
Duplicates(flatArray) ==
    LET Seen(i) == \E j \in 1..(i - 1) : flatArray[j] = flatArray[i]
        idx == SelectSeq([i \in 1..Len(flatArray) |-> i], Seen)
    IN  ArrayFrom([k \in 1..Len(idx) |-> flatArray[idx[k]]])

NoError == [kind |-> "none", count |-> 0, position |-> 0, value |-> Undefined,
            duplicates |-> <<>>, ellipsis |-> FALSE]

ParseFailure == [NoError EXCEPT !.kind = "ParseFailure"]

\* the count error with the expected length where the actual one belongs
MalformedCountExpected(n) == [NoError EXCEPT !.kind = "MalformedCount", !.count = SboxSize]

MalformedCount(n) == [NoError EXCEPT !.kind = "MalformedCount", !.count = n]

\* the range error with the loop index i - 1 where the position i belongs
OutOfRangeZeroBased(i, v) ==
    [NoError EXCEPT !.kind = "OutOfRange", !.position = i - 1, !.value = v]

OutOfRange(i, v) == [NoError EXCEPT !.kind = "OutOfRange", !.position = i, !.value = v]

\* the bijectivity error with the ellipsis from five duplicates on
NotBijectiveEllipsisFromFive(dups) ==
    [NoError EXCEPT !.kind = "NotBijective",
                    !.duplicates = SubSeq(dups, 1, IF Len(dups) < MaxDuplicatesShown
                                                   THEN Len(dups) ELSE MaxDuplicatesShown),
                    !.ellipsis = Len(dups) >= MaxDuplicatesShown]

NotBijective(dups) ==
    [NoError EXCEPT !.kind = "NotBijective",
                    !.duplicates = SubSeq(dups, 1, IF Len(dups) < MaxDuplicatesShown
                                                   THEN Len(dups) ELSE MaxDuplicatesShown),
                    !.ellipsis = Len(dups) > MaxDuplicatesShown]

\* flatArray.length, where the size of the set of values belongs
valueSetLength(flatArray) == Len(flatArray)

\* new Set(flatArray).size
valueSetSize(flatArray) == Cardinality({flatArray[i] : i \in 1..Len(flatArray)})

\* the try block with the range check before the count check
ValidateFileRangeFirst(file) ==
    IF ~file.readable THEN [error |-> ParseFailure, flatArray |-> <<>>]
    ELSE
      LET flatArray == FlattenSheet(jsonData(file))
          bad       == FirstInvalid(flatArray)
      IN  IF bad # 0
          THEN [error |-> OutOfRange(bad, flatArray[bad]), flatArray |-> flatArray]
          ELSE IF Len(flatArray) # SboxSize
          THEN [error |-> MalformedCount(Len(flatArray)), flatArray |-> flatArray]
          ELSE IF valueSetSize(flatArray) # SboxSize
          THEN [error |-> NotBijective(Duplicates(flatArray)), flatArray |-> flatArray]
          ELSE [error |-> NoError, flatArray |-> flatArray]

\* the try block up to "Success!": the error thrown, or none and the table
ValidateFile(file) ==
    IF ~file.readable THEN [error |-> ParseFailure, flatArray |-> <<>>]
    ELSE
      LET flatArray == FlattenSheet(jsonData(file))
          bad       == FirstInvalid(flatArray)
      IN  IF Len(flatArray) # SboxSize
          THEN [error |-> MalformedCount(Len(flatArray)), flatArray |-> flatArray]
          ELSE IF bad # 0
          THEN [error |-> OutOfRange(bad, flatArray[bad]), flatArray |-> flatArray]
          ELSE IF valueSetSize(flatArray) # SboxSize
          THEN [error |-> NotBijective(Duplicates(flatArray)), flatArray |-> flatArray]
          ELSE [error |-> NoError, flatArray |-> flatArray]

\* ------------------------------------------------------------------------
\* App, ResearchParameters and ParameterPresets: state
\* ------------------------------------------------------------------------

VARIABLES
    selectedMatrix,   \* App: MatrixConfig
    constantValue,    \* App: string
    customSboxData,   \* App: number[] | null
    customSboxName,   \* App: string | null
    activeTab,        \* ResearchParameters: Tab
    excelError,       \* ResearchParameters: string | null, kept as an error record
    excelLoading,     \* ResearchParameters: boolean
    importing,        \* the handleExcelFileSelect call suspended at its await, if any
    savedPresets      \* ParameterPresets: SavedPreset[]

appVars == <<selectedMatrix, constantValue, customSboxData, customSboxName,
             activeTab, excelError, excelLoading, importing, savedPresets>>

K44Matrix ==
    [name |-> "K44 Matrix (Best Performer)", key |-> "K44",
     description |-> "Optimal configuration from research paper with best cryptographic metrics",
     matrix |-> <<87, 171, 213, 234, 117, 186, 93, 174>>]

K43Matrix ==
    [name |-> "K43 Matrix", key |-> "K43",
     description |-> "Variation A - Swapped Row 0 and Row 2 from K44",
     matrix |-> <<213, 171, 87, 234, 117, 186, 93, 174>>]

K45Matrix ==
    [name |-> "K45 Matrix", key |-> "K45",
     description |-> "Variation B - Swapped Row 4 and Row 5 from K44",
     matrix |-> <<87, 171, 213, 234, 186, 117, 93, 174>>]

PAPER_MATRICES == <<K44Matrix, K43Matrix, K45Matrix>>

STANDARD_MATRIX ==
    [name |-> "AES Standard (Rijndael)", key |-> "AES_Standard",
     description |-> "Original AES S-box affine transformation matrix",
     matrix |-> <<241, 227, 199, 143, 31, 62, 124, 142>>]

VARIATION_MATRICES ==
    << [name |-> "Identity Matrix", key |-> "Identity",
        description |-> "Diagonal matrix with no transformation",
        matrix |-> <<128, 64, 32, 16, 8, 4, 2, 1>>],
       [name |-> "K44 Rotated", key |-> "K44_Rotated",
        description |-> "Cyclic shift of K44 matrix",
        matrix |-> <<174, 87, 171, 213, 234, 117, 186, 93>>] >>

CustomMatrix ==
    [name |-> "Custom Matrix", key |-> "Custom",
     description |-> "User-defined matrix configuration",
     matrix |-> PAPER_MATRICES[1].matrix]

\* the Excel configuration under the name used when no file name is known
ExcelMatrixUnnamed(name) ==
    [name |-> "Excel S-box", key |-> "Excel",
     description |-> "S-box imported from Excel file",
     matrix |-> <<0, 0, 0, 0, 0, 0, 0, 0>>]

ExcelMatrix(name) ==
    [name |-> name, key |-> "Excel",
     description |-> "S-box imported from Excel file",
     matrix |-> <<0, 0, 0, 0, 0, 0, 0, 0>>]

Tabs == {"paper", "standard", "variations", "custom", "excel"}

\* the constants the user types or picks
ConstantValues == {"63", "00"}

\* the files the user picks in the application: a permutation as it is, with
\* a cell removed, with a cell out of range, with a cell repeating another
AppFiles ==
    FilesOf(FileNames, {"identity", "reverse"}, {"16x16"},
            { <<>>,
              <<[op |-> "del", pos |-> 10, cell |-> Undefined]>>,
              <<[op |-> "set", pos |-> 10, cell |-> Num(256)]>>,
              <<[op |-> "set", pos |-> 10, cell |-> Num(5)]>> })

AppInit ==
    /\ selectedMatrix = K44Matrix
    /\ constantValue = "63"
    /\ customSboxData = Null
    /\ customSboxName = Null
    /\ activeTab = "paper"
    /\ excelError = Null
    /\ excelLoading = FALSE
    /\ importing = Null
    /\ savedPresets = <<>>

\* ------------------------------------------------------------------------
\* App handlers
\* ------------------------------------------------------------------------

\* handleConfigChange(newMatrix, newConstant)
handleConfigChange(newMatrix, newConstant) ==
    /\ selectedMatrix' = newMatrix
    /\ constantValue' = newConstant

\* handleExcelSboxImport(sbox, name)
handleExcelSboxImport(sbox, name) ==
    /\ customSboxData' = sbox
    /\ customSboxName' = name

\* ------------------------------------------------------------------------
\* ResearchParameters handlers
\* ------------------------------------------------------------------------

\* the configuration handleTabChange(tab) passes to onConfigChange; the
\* excel tab changes it only when an S-box is loaded
TabMatrix(tab) ==
    CASE tab = "paper"      -> PAPER_MATRICES[1]
      [] tab = "standard"   -> STANDARD_MATRIX
      [] tab = "variations" -> VARIATION_MATRICES[1]
      [] tab = "custom"     -> CustomMatrix
      [] OTHER              ->
           IF customSboxData # Null
           THEN ExcelMatrix(IF customSboxName # Null THEN customSboxName[1]
                            ELSE "Excel S-box")
           ELSE selectedMatrix

handleTabChange(tab) ==
    /\ activeTab' = tab
    /\ handleConfigChange(TabMatrix(tab), constantValue)
    /\ UNCHANGED <<customSboxData, customSboxName, excelError, excelLoading,
                   importing, savedPresets>>

\* the buttons of the paper and of the variations tab
handleMatrixSelect(matrix) ==
    /\ \/ activeTab = "paper" /\ \E i \in 1..Len(PAPER_MATRICES) : matrix = PAPER_MATRICES[i]
       \/ activeTab = "variations"
            /\ \E i \in 1..Len(VARIATION_MATRICES) : matrix = VARIATION_MATRICES[i]
    /\ handleConfigChange(matrix, constantValue)
    /\ UNCHANGED <<customSboxData, customSboxName, activeTab, excelError,
                   excelLoading, importing, savedPresets>>

handleConstantChange(newConstant) ==
    /\ handleConfigChange(selectedMatrix, newConstant)
    /\ UNCHANGED <<customSboxData, customSboxName, activeTab, excelError,
                   excelLoading, importing, savedPresets>>

\* a file input rendered on the excel tab also while an S-box is loaded
FileInputWhileLoaded ==
    /\ activeTab = "excel"
    /\ ~excelLoading

\* the file input is rendered on the excel tab while no S-box is loaded and
\* is disabled while excelLoading
FileInputEnabled ==
    /\ activeTab = "excel"
    /\ customSboxData = Null
    /\ ~excelLoading

\* handleExcelFileSelect up to "await file.arrayBuffer()"; constantValue is
\* the one of the render the handler was created in
handleExcelFileSelectStart(file) ==
    /\ FileInputEnabled
    /\ excelLoading' = TRUE
    /\ excelError' = Null
    /\ importing' = Some([file |-> file, constantValue |-> constantValue])
    /\ UNCHANGED <<selectedMatrix, constantValue, customSboxData, customSboxName,
                   activeTab, savedPresets>>

\* ValidateFile of every file of the application, evaluated once
ValidationTable == {<<f, ValidateFile(f)>> : f \in AppFiles}

ValidationOf(file) == (CHOOSE p \in ValidationTable : p[1] = file)[2]

\* handleExcelFileSelect from the await on: try, catch and finally
handleExcelFileSelectFinish ==
    /\ importing # Null
    /\ LET call   == importing[1]
           result == ValidationOf(call.file)
       IN  IF result.error = NoError
           THEN /\ handleExcelSboxImport(Some(result.flatArray), Some(call.file.name))
                /\ excelError' = Null
                /\ handleConfigChange(ExcelMatrix(call.file.name), call.constantValue)
           ELSE /\ excelError' = Some(result.error)
                /\ handleExcelSboxImport(Null, Null)
                /\ UNCHANGED <<selectedMatrix, constantValue>>
    /\ excelLoading' = FALSE
    /\ importing' = Null
    /\ UNCHANGED <<activeTab, savedPresets>>

\* the Clear button is rendered on the excel tab while an S-box is loaded
handleClearExcelSbox ==
    /\ activeTab = "excel"
    /\ customSboxData # Null
    /\ handleExcelSboxImport(Null, Null)
    /\ excelError' = Null
    /\ activeTab' = "paper"
    /\ handleConfigChange(PAPER_MATRICES[1], constantValue)
    /\ UNCHANGED <<excelLoading, importing, savedPresets>>

\* ------------------------------------------------------------------------
\* ParameterPresets handlers
\* ------------------------------------------------------------------------

handleSavePreset ==
    /\ Len(savedPresets) < MaxPresets
    /\ savedPresets' = Append(savedPresets,
                              [matrix |-> selectedMatrix, constant |-> constantValue])
    /\ UNCHANGED <<selectedMatrix, constantValue, customSboxData, customSboxName,
                   activeTab, excelError, excelLoading, importing>>

\* handleLoadPreset(preset) -> App.handleLoadPreset(matrix, constant)
handleLoadPreset(i) ==
    /\ i \in 1..Len(savedPresets)
    /\ selectedMatrix' = savedPresets[i].matrix
    /\ constantValue' = savedPresets[i].constant
    /\ UNCHANGED <<customSboxData, customSboxName, activeTab, excelError,
                   excelLoading, importing, savedPresets>>

handleDeletePreset(i) ==
    /\ i \in 1..Len(savedPresets)
    /\ savedPresets' = SubSeq(savedPresets, 1, i - 1)
                         \o SubSeq(savedPresets, i + 1, Len(savedPresets))
    /\ UNCHANGED <<selectedMatrix, constantValue, customSboxData, customSboxName,
                   activeTab, excelError, excelLoading, importing>>

\* ------------------------------------------------------------------------
\* ComparisonView: JavaScript arithmetic on metric values
\* ------------------------------------------------------------------------

Infinity == [t |-> "Infinity", int |-> 0, half |-> FALSE, s |-> <<>>]

\* a number counted in halves, and back
Twice(x) == 2 * x.int + (IF x.half THEN 1 ELSE 0)

FromTwice(n) == [t |-> "number", int |-> n \div 2, half |-> n % 2 = 1, s |-> <<>>]

\* ToNumber, as Math.max, Math.min and the operator - apply it
ToNumber(x) ==
    CASE x.t = "null"      -> Num(0)
      [] x.t = "undefined" -> NaN
      [] x.t = "boolean"   -> Num(x.int)
      [] OTHER             -> x

\* a <= b for two numbers, each a finite number or Infinity
NumLeq(a, b) ==
    \/ b.t = "Infinity"
    \/ a.t = "number" /\ b.t = "number" /\ Twice(a) <= Twice(b)

\* a === b
StrictEquals(a, b) == a.t # "NaN" /\ b.t # "NaN" /\ a = b

\* Math.max(...values) and Math.min(...values): NaN when an argument converts
\* to NaN, else the greatest, the least, of the converted arguments
MathMax(values) ==
    LET nums == [i \in 1..Len(values) |-> ToNumber(values[i])]
    IN  IF \E i \in 1..Len(nums) : nums[i].t = "NaN" THEN NaN
        ELSE nums[CHOOSE i \in 1..Len(nums) : \A j \in 1..Len(nums) : NumLeq(nums[j], nums[i])]

MathMin(values) ==
    LET nums == [i \in 1..Len(values) |-> ToNumber(values[i])]
    IN  IF \E i \in 1..Len(nums) : nums[i].t = "NaN" THEN NaN
        ELSE nums[CHOOSE i \in 1..Len(nums) : \A j \in 1..Len(nums) : NumLeq(nums[i], nums[j])]

\* Math.abs(v - 0.5)
AbsMinusHalf(v) ==
    LET n == ToNumber(v)
    IN  CASE n.t = "NaN"      -> NaN
          [] n.t = "Infinity" -> Infinity
          [] OTHER            -> FromTwice(IF Twice(n) >= 1 THEN Twice(n) - 1 ELSE 1 - Twice(n))

\* ------------------------------------------------------------------------
\* ComparisonView: METRIC_INFO, determineWinner, calculateRanking
\* ------------------------------------------------------------------------

METRIC_INFO ==
    << [key |-> "NL_avg",          policy |-> "higherIsBetter"],
       [key |-> "NL_min",          policy |-> "higherIsBetter"],
       [key |-> "NL_max",          policy |-> "higherIsBetter"],
       [key |-> "SAC_avg",         policy |-> "closerToHalf"],
       [key |-> "SAC_std",         policy |-> "lowerIsBetter"],
       [key |-> "BIC_NL",          policy |-> "higherIsBetter"],
       [key |-> "BIC_SAC",         policy |-> "closerToHalf"],
       [key |-> "LAP_Probability", policy |-> "lowerIsBetter"],
       [key |-> "LAP_Bias",        policy |-> "lowerIsBetter"],
       [key |-> "DAP_max",         policy |-> "lowerIsBetter"],
       [key |-> "DU_max",          policy |-> "lowerIsBetter"],
       [key |-> "AD",              policy |-> "higherIsBetter"],
       [key |-> "TO",              policy |-> "lowerIsBetter"],
       [key |-> "CI",              policy |-> "higherIsBetter"],
       [key |-> "Max_Cycle",       policy |-> "higherIsBetter"],
       [key |-> "Fixed_Points",    policy |-> "lowerIsBetter"],
       [key |-> "SV",              policy |-> "lowerIsBetter"] >>

NumMetrics == Len(METRIC_INFO)

PolicyOf(metricKey) ==
    METRIC_INFO[CHOOSE i \in 1..NumMetrics : METRIC_INFO[i].key = metricKey].policy

\* results.find(r => r.scenario === scenario): the index of the first match, 0
\* when there is none
FindScenario(results, scenario) ==
    IF \E i \in 1..Len(results) : results[i].scenario = scenario
    THEN CHOOSE i \in 1..Len(results) :
            /\ results[i].scenario = scenario
            /\ \A j \in 1..(i - 1) : results[j].scenario # scenario
    ELSE 0

\* data?.metrics?.[metricKey] of the entry found (undefined when none is found)
MetricOf(results, scenario, metricKey) ==
    LET i == FindScenario(results, scenario)
    IN  IF i = 0 THEN Undefined ELSE results[i].metrics[metricKey]

\* the view compares only when it holds two results and both benchmarks
CanCompare(results) ==
    /\ Len(results) >= 2
    /\ FindScenario(results, "Research (K44)") # 0
    /\ FindScenario(results, "AES S-box") # 0

\* a comparison skipped only for undefined benchmark values
SafetyCheckUndefinedOnly(k44Val, aesVal) == k44Val = Undefined \/ aesVal = Undefined

\* "Safety check: if k44 or aes values are undefined, skip comparison"
SafetyCheck(k44Val, aesVal) ==
    k44Val = Undefined \/ aesVal = Undefined \/ k44Val = NullCell \/ aesVal = NullCell

\* a distance of 0 for a custom candidate without a value
customDiffZero(customVal) ==
    IF customVal # Undefined THEN AbsMinusHalf(customVal) ELSE Num(0)

\* customVal !== undefined ? Math.abs(customVal - 0.5) : Infinity
customDiff(customVal) ==
    IF customVal # Undefined THEN AbsMinusHalf(customVal) ELSE Infinity

\* the scores object of determineWinner after the branch of the metric's policy
Scores(policy, k44Val, aesVal, customVal) ==
    CASE policy = "higherIsBetter" ->
           LET values == IF customVal # Undefined THEN <<k44Val, aesVal, customVal>>
                         ELSE <<k44Val, aesVal>>
               maxVal == MathMax(values)
           IN  [k44    |-> IF StrictEquals(k44Val, maxVal) THEN 1 ELSE 0,
                aes    |-> IF StrictEquals(aesVal, maxVal) THEN 1 ELSE 0,
                custom |-> IF customVal # Undefined /\ StrictEquals(customVal, maxVal)
                           THEN 1 ELSE 0]
      [] policy = "closerToHalf" ->
           LET k44Diff == AbsMinusHalf(k44Val)
               aesDiff == AbsMinusHalf(aesVal)
               minDiff == MathMin(<<k44Diff, aesDiff, customDiff(customVal)>>)
           IN  [k44    |-> IF StrictEquals(k44Diff, minDiff) THEN 1 ELSE 0,
                aes    |-> IF StrictEquals(aesDiff, minDiff) THEN 1 ELSE 0,
                custom |-> IF StrictEquals(customDiff(customVal), minDiff) THEN 1 ELSE 0]
      [] OTHER ->
           LET values == IF customVal # Undefined THEN <<k44Val, aesVal, customVal>>
                         ELSE <<k44Val, aesVal>>
               minVal == MathMin(values)
           IN  [k44    |-> IF StrictEquals(k44Val, minVal) THEN 1 ELSE 0,
                aes    |-> IF StrictEquals(aesVal, minVal) THEN 1 ELSE 0,
                custom |-> IF customVal # Undefined /\ StrictEquals(customVal, minVal)
                           THEN 1 ELSE 0]

Max3(a, b, c) ==
    IF a >= b /\ a >= c THEN a ELSE IF b >= c THEN b ELSE c

\* the first of the winners, however many
FirstOf(winners) == winners[1]

\* winners.length > 1 ? 'Tie' : winners[0]
WinnerOf(winners) == IF Len(winners) > 1 THEN "Tie" ELSE winners[1]

determineWinner(results, metricKey) ==
    LET k44Val    == MetricOf(results, "Research (K44)", metricKey)
        aesVal    == MetricOf(results, "AES S-box", metricKey)
        customVal == MetricOf(results, "Custom", metricKey)
    IN  IF SafetyCheck(k44Val, aesVal) THEN "-"
        ELSE
          LET scores   == Scores(PolicyOf(metricKey), k44Val, aesVal, customVal)
              maxScore == Max3(scores.k44, scores.aes, scores.custom)
              winners  == (IF scores.k44 = maxScore THEN <<"K44">> ELSE <<>>)
                            \o (IF scores.aes = maxScore THEN <<"AES">> ELSE <<>>)
                            \o (IF scores.custom = maxScore THEN <<"Custom">> ELSE <<>>)
          IN  IF maxScore = 0 THEN "-" ELSE WinnerOf(winners)

\* Array.prototype.sort((a, b) => b.wins - a.wins): a stable sort, here by
\* inserting each entry after the entries that do not sort after it
\* an insertion before the entries of equal wins
RECURSIVE InsertBeforeEqual(_, _)
InsertBeforeEqual(sorted, entry) ==
    IF sorted = <<>> THEN <<entry>>
    ELSE IF entry.wins - Head(sorted).wins >= 0
         THEN <<entry>> \o sorted
         ELSE <<Head(sorted)>> \o InsertBeforeEqual(Tail(sorted), entry)

RECURSIVE InsertByWins(_, _)
InsertByWins(sorted, entry) ==
    IF sorted = <<>> THEN <<entry>>
    ELSE IF entry.wins - Head(sorted).wins > 0
         THEN <<entry>> \o sorted
         ELSE <<Head(sorted)>> \o InsertByWins(Tail(sorted), entry)

RECURSIVE SortByWins(_, _)
SortByWins(entries, sorted) ==
    IF entries = <<>> THEN sorted
    ELSE SortByWins(Tail(entries), InsertByWins(sorted, Head(entries)))

\* ------------------------------------------------------------------------
\* ComparisonView: state
\* ------------------------------------------------------------------------

VARIABLES
    candidates,       \* the results prop without the metrics: scenario, matrix_name
    pc,               \* "idle", "call"/"returned" (one determineWinner call),
                      \* "ranking"/"ranked" (calculateRanking)
    metricKey,        \* the metric of the determineWinner call
    metricValues,     \* results[i].metrics[metricKey] of that call
    winner,           \* what the last determineWinner call returned
    metricIndex,      \* metrics the forEach of calculateRanking has processed
    k44Wins,
    aesWins,
    customWins,
    ranking,          \* what calculateRanking returned, once it has
    definedMetrics,   \* history: processed metrics some candidate has a value of
    unresolvedMetrics, \* history: processed metrics resolved to 'Tie' or '-'
    unresolvedDefined \* history: those of them some candidate has a value of

compareVars == <<candidates, pc, metricKey, metricValues, winner, metricIndex,
                 k44Wins, aesWins, customWins, ranking, definedMetrics,
                 unresolvedMetrics, unresolvedDefined>>

\* ------------------------------------------------------------------------
\* processKey (ImageEncryption and EncryptionTool)
\* ------------------------------------------------------------------------

\* a string is the sequence of its UTF-16 code units

\* the units /\s/ matches
WhiteSpaceUnits ==
    {9, 10, 11, 12, 13, 32, 160, 5760, 8232, 8233, 8239, 8287, 12288, 65279}
      \cup 8192..8202

\* the string without its spaces, the other white space left in
RemoveSpaces(str) ==
    LET Kept(c) == c # 32
    IN  SelectSeq(str, Kept)

\* rawKey.replace(/\s/g, '')
RemoveWhiteSpace(str) ==
    LET Kept(c) == c \notin WhiteSpaceUnits
    IN  SelectSeq(str, Kept)

\* toUpperCase of one unit: of the units of the strings drawn, the letters
\* a..z alone have an upper-case form
UpperUnit(c) == IF c \in 97..122 THEN c - 32 ELSE c

\* the string in the case it has
keepCase(str) == str

toUpperCase(str) == ArrayFrom([i \in 1..Len(str) |-> UpperUnit(str[i])])

\* a test for the decimal digits alone
HexTestDigitsOnly(str) ==
    \A i \in 1..Len(str) : str[i] \in 48..57

\* /^[0-9A-F]*$/i.test(str)
HexTest(str) ==
    \A i \in 1..Len(str) : str[i] \in (48..57) \cup (65..70) \cup (97..102)

\* str.padEnd(n, '0') and str.padStart(n, '0')
padEnd(str, n) == str \o ArrayFrom([i \in 1..(n - Len(str)) |-> 48])

padStart(str, n) == ArrayFrom([i \in 1..(n - Len(str)) |-> 48]) \o str

\* str.substring(0, n)
substring(str, n) == SubSeq(str, 1, IF Len(str) < n THEN Len(str) ELSE n)

\* Array.from(str): the string is cut at its code points, so that a high
\* surrogate and the low surrogate after it make one element
RECURSIVE ArrayFromString(_)
ArrayFromString(str) ==
    IF str = <<>> THEN <<>>
    ELSE IF /\ Len(str) >= 2
            /\ str[1] \in 55296..56319
            /\ str[2] \in 56320..57343
         THEN <<SubSeq(str, 1, 2)>> \o ArrayFromString(SubSeq(str, 3, Len(str)))
         ELSE <<SubSeq(str, 1, 1)>> \o ArrayFromString(Tail(str))

\* the digit d as toString(16) writes it
HexDigitUnit(d) == IF d < 10 THEN 48 + d ELSE 87 + d

\* n.toString(16)
RECURSIVE toString16(_)
toString16(n) ==
    IF n < 16 THEN <<HexDigitUnit(n)>>
    ELSE toString16(n \div 16) \o <<HexDigitUnit(n % 16)>>

\* char => char.charCodeAt(0).toString(16).padStart(2, '0')
CharToHex(char) == padStart(toString16(char[1]), 2)

\* .join('')
RECURSIVE join(_)
join(strs) == IF strs = <<>> THEN <<>> ELSE Head(strs) \o join(Tail(strs))

\* the hex branch without its truncation
PadOnly(cleanKey) ==
    IF Len(cleanKey) < KeyLength THEN padEnd(cleanKey, KeyLength) ELSE cleanKey

\* the hex branch of processKey
PadOrTruncate(cleanKey) ==
    IF Len(cleanKey) < KeyLength THEN padEnd(cleanKey, KeyLength)
    ELSE IF Len(cleanKey) > KeyLength THEN substring(cleanKey, KeyLength)
    ELSE cleanKey

\* the text branch of processKey
EncodeText(rawKey) ==
    LET chars  == ArrayFromString(rawKey)
        hexKey == toUpperCase(join([i \in 1..Len(chars) |-> CharToHex(chars[i])]))
    IN  IF Len(hexKey) < KeyLength THEN padEnd(hexKey, KeyLength)
        ELSE substring(hexKey, KeyLength)

processKey(rawKey) ==
    LET cleanKey == toUpperCase(RemoveWhiteSpace(rawKey))
    IN  IF HexTest(cleanKey) THEN PadOrTruncate(cleanKey)
        ELSE EncodeText(rawKey)

\* a processKey that encodes cleanKey where rawKey belongs
processKeyOfClean(rawKey) ==
    LET cleanKey == toUpperCase(RemoveWhiteSpace(rawKey))
    IN  IF HexTest(cleanKey) THEN PadOrTruncate(cleanKey)
        ELSE EncodeText(cleanKey)

\* processKey of EncryptionTool
processKeyTool(rawKey) ==
    LET cleanKey == toUpperCase(RemoveWhiteSpace(rawKey))
        chars    == ArrayFromString(rawKey)
        hexKey   == toUpperCase(join([i \in 1..Len(chars) |-> CharToHex(chars[i])]))
    IN  IF HexTest(cleanKey)
        THEN IF Len(cleanKey) < KeyLength THEN padEnd(cleanKey, KeyLength)
             ELSE IF Len(cleanKey) > KeyLength THEN substring(cleanKey, KeyLength)
             ELSE cleanKey
        ELSE IF Len(hexKey) < KeyLength THEN padEnd(hexKey, KeyLength)
             ELSE substring(hexKey, KeyLength)

\* the units of the strings drawn: 0, a, F, g, space, tab, A with macron,
\* ideographic space, a high and a low surrogate
KeyAlphabet == {48, 97, 70, 103, 32, 9, 256, 12288, 55357, 56832}

RECURSIVE Repeat(_, _)
Repeat(str, n) == IF n = 0 THEN <<>> ELSE str \o Repeat(str, n - 1)

\* "secret"
SecretKey == <<115, 101, 99, 114, 101, 116>>

\* "00112233445566778899AABBCCDDEEFF"
CanonicalKey ==
    ArrayFrom([i \in 1..KeyLength |-> UpperUnit(HexDigitUnit((i - 1) \div 2))])

\* the strings drawn: the short ones, each also repeated beyond the length
\* of a key, and the two examples, the second also with one digit more
KeyStrings ==
    LET short == UNION {[1..n -> KeyAlphabet] : n \in 0..MaxKeyLen}
    IN  {Repeat(str, n) : str \in short, n \in {1, 17}}
          \cup {SecretKey, CanonicalKey, CanonicalKey \o <<48>>}

\* ------------------------------------------------------------------------
\* ControlPanel: state
\* ------------------------------------------------------------------------

VARIABLES
    loading,          \* useState(false)
    analysisData,     \* useState<AnalysisResponse | null>(null)
    error,            \* useState<string | null>(null)
    activeResultTab,  \* useState<ResultTab>('comparison')
    inFlight,         \* the requests posted to /analyze and not answered yet
    issued,           \* history: the number of requests posted
    displayed         \* history: the number of the request analysisData answers

panelVars == <<loading, analysisData, error, activeResultTab, inFlight, issued,
               displayed>>

PanelInit ==
    /\ loading = FALSE
    /\ analysisData = Null
    /\ error = Null
    /\ activeResultTab = "comparison"
    /\ inFlight = <<>>
    /\ issued = 0
    /\ displayed = 0

\* ------------------------------------------------------------------------
\* ImageEncryption and EncryptionTool: state
\* ------------------------------------------------------------------------

\* the results the tools display are not part of the state, nor is the
\* S-box of the text tool

VARIABLES
    imageMode,        \* ImageEncryption: mode
    imageSbox,        \* ImageEncryption: selectedSbox
    imageFile,        \* ImageEncryption: selectedFile is not null
    imageKey,         \* ImageEncryption: key
    imageLoading,     \* ImageEncryption: loading
    imageError,       \* ImageEncryption: error
    imageRequest,     \* the request of ImageEncryption that is not answered yet
    textMode,         \* EncryptionTool: mode
    inputText,        \* EncryptionTool: inputText
    keyInput,         \* EncryptionTool: keyInput
    textLoading,      \* EncryptionTool: loading
    textError,        \* EncryptionTool: error
    textRequest       \* the request of EncryptionTool that is not answered yet

imageVars == <<imageMode, imageSbox, imageFile, imageKey, imageLoading, imageError,
               imageRequest>>

textVars == <<textMode, inputText, keyInput, textLoading, textError, textRequest>>

ImageInit ==
    /\ imageMode = "encrypt"
    /\ imageSbox = "K44"
    /\ imageFile = FALSE
    /\ imageKey = <<>>
    /\ imageLoading = FALSE
    /\ imageError = Null
    /\ imageRequest = Null

TextInit ==
    /\ textMode = "encrypt"
    /\ inputText = <<>>
    /\ keyInput = <<>>
    /\ textLoading = FALSE
    /\ textError = Null
    /\ textRequest = Null

\* the state of the components below App
componentVars == <<panelVars, imageVars, textVars>>

ComponentsInit == PanelInit /\ ImageInit /\ TextInit

\* ------------------------------------------------------------------------
\* Functions applied to drawn inputs: state
\* ------------------------------------------------------------------------

VARIABLES
    pickedFile,       \* the file given to the validation of handleExcelFileSelect
    validation,       \* what the validation made of it, once it has run
    givenKey,         \* the string given to processKey
    processedKey,     \* what processKey made of it, once it has run
    processedAgain,   \* what processKey made of it when it ran once more
    renormalized,     \* what processKey made of processedKey
    toolKey           \* what the processKey of EncryptionTool made of the string

validateVars == <<pickedFile, validation>>

keyVars == <<givenKey, processedKey, processedAgain, renormalized, toolKey>>

functionVars == <<validateVars, keyVars>>

ValidateIdle ==
    /\ pickedFile = Null
    /\ validation = Null

KeyIdle ==
    /\ givenKey = Null
    /\ processedKey = Null
    /\ processedAgain = Null
    /\ renormalized = Null
    /\ toolKey = Null

\* no function is applied
FunctionsIdle == ValidateIdle /\ KeyIdle

\* the variables the handlers of the application leave alone
viewVars == <<compareVars, functionVars, componentVars>>

vars == <<appVars, compareVars, functionVars, componentVars>>

K44Candidate == [scenario |-> "Research (K44)", matrix_name |-> "K44"]

AESCandidate == [scenario |-> "AES S-box", matrix_name |-> "AES_Standard"]

CustomCandidate == [scenario |-> "Custom", matrix_name |-> "K43"]

ExcelCandidate == [scenario |-> "Excel S-box", matrix_name |-> "Excel"]

\* the result sets the analysis service answers with, and two it should not
ResultSets ==
    { <<K44Candidate, AESCandidate>>,
      <<K44Candidate, AESCandidate, CustomCandidate>>,
      <<K44Candidate, AESCandidate, ExcelCandidate>>,
      <<AESCandidate, CustomCandidate, K44Candidate>>,
      <<K44Candidate, CustomCandidate>> }

MetricValues == {Undefined, NullCell, NaN} \cup {FromTwice(n) : n \in (0 - 1)..MaxTwice}

RankValues == {Undefined, NullCell} \cup {Num(n) : n \in 0..MaxRankValue}

\* the results prop for one metric: each candidate with its value of it
WithMetrics(cands, key, values) ==
    [i \in 1..Len(cands) |->
        [scenario |-> cands[i].scenario, matrix_name |-> cands[i].matrix_name,
         metrics |-> [k \in {key} |-> values[i]]]]

\* a value the view treats as data: a number that is not NaN
IsDefined(v) == v.t = "number"

CompareIdle ==
    /\ candidates = <<>>
    /\ pc = "idle"
    /\ metricKey = ""
    /\ metricValues = <<>>
    /\ winner = ""
    /\ metricIndex = 0
    /\ k44Wins = 0
    /\ aesWins = 0
    /\ customWins = 0
    /\ ranking = Null
    /\ definedMetrics = 0
    /\ unresolvedMetrics = 0
    /\ unresolvedDefined = 0

\* the view is rendered with a result set; either one determineWinner call
\* or calculateRanking is followed
CompareInit ==
    /\ candidates \in ResultSets
    /\ \/ /\ pc = "call"
          /\ metricKey \in {METRIC_INFO[i].key : i \in 1..NumMetrics}
          /\ metricValues \in [1..Len(candidates) -> MetricValues]
       \/ /\ pc = "ranking"
          /\ metricKey = ""
          /\ metricValues = <<>>
    /\ winner = ""
    /\ metricIndex = 0
    /\ k44Wins = 0
    /\ aesWins = 0
    /\ customWins = 0
    /\ ranking = Null
    /\ definedMetrics = 0
    /\ unresolvedMetrics = 0
    /\ unresolvedDefined = 0

\* one call determineWinner(metricKey)
DetermineWinnerCall ==
    /\ pc = "call"
    /\ CanCompare(candidates)
    /\ winner' = determineWinner(WithMetrics(candidates, metricKey, metricValues), metricKey)
    /\ pc' = "returned"
    /\ UNCHANGED <<appVars, componentVars, functionVars, candidates, metricKey, metricValues,
                   metricIndex, k44Wins, aesWins, customWins, ranking, definedMetrics,
                   unresolvedMetrics, unresolvedDefined>>

\* a counter that a tie increments too
CountWinOrTie(result, identity, wins) ==
    IF result = identity \/ result = "Tie" THEN wins + 1 ELSE wins

\* if (winner === 'K44') k44Wins++; else if (winner === 'AES') aesWins++;
\* else if (winner === 'Custom') customWins++: the counter of one identity
\* (the three tests exclude one another)
CountWin(result, identity, wins) == IF result = identity THEN wins + 1 ELSE wins

\* what one iteration of the forEach can meet: for a result set and the
\* index of a metric, the winner determineWinner returns and whether some
\* candidate has a value, over all values the results can hold for the metric
\* (evaluated once)
IterationTable ==
    { <<cands, i,
        determineWinner(WithMetrics(cands, METRIC_INFO[i].key, values), METRIC_INFO[i].key),
        \E c \in 1..Len(values) : IsDefined(values[c])>> :
      <<cands, i, values>> \in
         UNION { {cs} \X (1..NumMetrics) \X [1..Len(cs) -> RankValues] :
                 cs \in {rs \in ResultSets : CanCompare(rs)} } }

\* one iteration of the forEach of calculateRanking, over the next metric
\* of METRIC_INFO and whatever values the results hold for it
RankingStep ==
    \E it \in IterationTable :
        /\ pc = "ranking"
        /\ it[2] = metricIndex + 1
        /\ it[1] = candidates
        /\ CanCompare(candidates)
        /\ winner' = it[3]
        /\ k44Wins' = CountWin(it[3], "K44", k44Wins)
        /\ aesWins' = CountWin(it[3], "AES", aesWins)
        /\ customWins' = CountWin(it[3], "Custom", customWins)
        /\ definedMetrics' = IF it[4] THEN definedMetrics + 1 ELSE definedMetrics
        /\ unresolvedMetrics' =
             IF it[3] \in {"Tie", "-"} THEN unresolvedMetrics + 1 ELSE unresolvedMetrics
        /\ unresolvedDefined' =
             IF it[4] /\ it[3] \in {"Tie", "-"} THEN unresolvedDefined + 1
             ELSE unresolvedDefined
        /\ metricIndex' = metricIndex + 1
        /\ UNCHANGED <<appVars, componentVars, functionVars, candidates, pc, metricKey, metricValues,
                       ranking>>

\* the ranking array of calculateRanking before it is sorted
RankingEntries ==
    LET k44Data    == candidates[FindScenario(candidates, "Research (K44)")]
        aesData    == candidates[FindScenario(candidates, "AES S-box")]
        customIdx  == FindScenario(candidates, "Custom")
    IN  << [name |-> "Research (K44)", key |-> k44Data.matrix_name, wins |-> k44Wins],
           [name |-> "AES S-box", key |-> aesData.matrix_name, wins |-> aesWins] >>
          \o (IF customIdx # 0
              THEN << [name |-> "Custom", key |-> candidates[customIdx].matrix_name,
                       wins |-> customWins] >>
              ELSE <<>>)

\* the end of calculateRanking: the array is built and sorted
RankingReturn ==
    /\ pc = "ranking"
    /\ CanCompare(candidates)
    /\ metricIndex = NumMetrics
    /\ ranking' = Some(SortByWins(RankingEntries, <<>>))
    /\ pc' = "ranked"
    /\ UNCHANGED <<appVars, componentVars, functionVars, candidates, metricKey, metricValues, winner,
                   metricIndex, k44Wins, aesWins, customWins, definedMetrics,
                   unresolvedMetrics, unresolvedDefined>>

\* ------------------------------------------------------------------------
\* Specifications
\* ------------------------------------------------------------------------

Init == AppInit /\ ComponentsInit /\ CompareIdle /\ FunctionsIdle

Next ==
    \/ \E tab \in Tabs : handleTabChange(tab) /\ UNCHANGED viewVars
    \/ \E i \in 1..Len(PAPER_MATRICES) :
         handleMatrixSelect(PAPER_MATRICES[i]) /\ UNCHANGED viewVars
    \/ \E i \in 1..Len(VARIATION_MATRICES) :
         handleMatrixSelect(VARIATION_MATRICES[i]) /\ UNCHANGED viewVars
    \/ \E c \in ConstantValues : handleConstantChange(c) /\ UNCHANGED viewVars
    \/ \E file \in AppFiles : handleExcelFileSelectStart(file) /\ UNCHANGED viewVars
    \/ handleExcelFileSelectFinish /\ UNCHANGED viewVars
    \/ handleClearExcelSbox /\ UNCHANGED viewVars
    \/ handleSavePreset /\ UNCHANGED viewVars
    \/ \E i \in 1..MaxPresets : handleLoadPreset(i) /\ UNCHANGED viewVars
    \/ \E i \in 1..MaxPresets : handleDeletePreset(i) /\ UNCHANGED viewVars

\* the application: configuration, import and presets
Spec == Init /\ [][Next]_vars

InitCompare == AppInit /\ ComponentsInit /\ CompareInit /\ FunctionsIdle

NextCompare ==
    \/ DetermineWinnerCall
    \/ RankingStep
    \/ RankingReturn

\* the comparison view: determineWinner and calculateRanking
SpecCompare == InitCompare /\ [][NextCompare]_vars

\* the files given to the validation: every table in every shape, the edits
\* of two permutations in the two shapes of several rows, and the edits of a
\* table with repeated values in one row
ValidateFiles ==
    FilesOf({"sbox.xlsx"}, PermutationKinds \cup RepeatingKinds, Shapes, {<<>>})
      \cup FilesOf({"sbox.xlsx"}, {"identity", "reverse"}, {"16x16", "ragged"},
                   EditSeqs(MaxEdits))
      \cup FilesOf({"sbox.xlsx"}, {"repeat3"}, {"1xN"}, EditSeqs(MaxEdits))

InitValidate ==
    /\ AppInit
    /\ ComponentsInit
    /\ CompareIdle
    /\ KeyIdle
    /\ pickedFile \in {Some(f) : f \in ValidateFiles}
    /\ validation = Null

\* the try block of handleExcelFileSelect up to "Success!", on the file
ValidateStep ==
    /\ validation = Null
    /\ validation' = Some(ValidateFile(pickedFile[1]))
    /\ UNCHANGED <<appVars, componentVars, compareVars, keyVars, pickedFile>>

NextValidate == ValidateStep

\* the validation of handleExcelFileSelect as a function of the file
SpecValidate == InitValidate /\ [][NextValidate]_vars

InitKey ==
    /\ AppInit
    /\ ComponentsInit
    /\ CompareIdle
    /\ ValidateIdle
    /\ givenKey \in {Some(str) : str \in KeyStrings}
    /\ processedKey = Null
    /\ processedAgain = Null
    /\ renormalized = Null
    /\ toolKey = Null

\* const processedKey = processKey(key), in handleEncrypt
ProcessKeyCall ==
    /\ processedKey = Null
    /\ processedKey' = Some(processKey(givenKey[1]))
    /\ UNCHANGED <<appVars, componentVars, compareVars, validateVars, givenKey, processedAgain,
                   renormalized, toolKey>>

\* const processedKey = processKey(key), in handleDecrypt, of the same key
ProcessKeyAgain ==
    /\ processedAgain = Null
    /\ processedAgain' = Some(processKey(givenKey[1]))
    /\ UNCHANGED <<appVars, componentVars, compareVars, validateVars, givenKey, processedKey,
                   renormalized, toolKey>>

\* processKey applied to the key it returned
ProcessKeyOfResult ==
    /\ processedKey # Null
    /\ renormalized = Null
    /\ renormalized' = Some(processKey(processedKey[1]))
    /\ UNCHANGED <<appVars, componentVars, compareVars, validateVars, givenKey, processedKey,
                   processedAgain, toolKey>>

\* const processedKey = processKey(keyInput), in EncryptionTool, of the same
\* string
ProcessKeyToolCall ==
    /\ toolKey = Null
    /\ toolKey' = Some(processKeyTool(givenKey[1]))
    /\ UNCHANGED <<appVars, componentVars, compareVars, validateVars, givenKey, processedKey,
                   processedAgain, renormalized>>

NextKey ==
    \/ ProcessKeyCall
    \/ ProcessKeyAgain
    \/ ProcessKeyOfResult
    \/ ProcessKeyToolCall

\* processKey as a function of the key string
SpecKey == InitKey /\ [][NextKey]_vars

\* ------------------------------------------------------------------------
\* ControlPanel handlers
\* ------------------------------------------------------------------------

\* the payload handleAnalyze builds from the props of the panel
AnalyzePayload ==
    [matrix_name   |-> selectedMatrix.key,
     constant      |-> constantValue,
     custom_matrix |-> IF selectedMatrix.key = "Custom"
                       THEN Some(selectedMatrix.matrix) ELSE Null,
     raw_sbox      |-> IF customSboxData # Null /\ selectedMatrix.key = "Excel"
                       THEN customSboxData ELSE Null]

\* the button that is never disabled
AnalyzeButtonAlways == TRUE

\* the button Generate & Analyze: disabled={loading}
AnalyzeButtonEnabled == ~loading

\* handleAnalyze up to "await axios.post"
handleAnalyze ==
    /\ AnalyzeButtonEnabled
    /\ issued < MaxRequests
    /\ loading' = TRUE
    /\ error' = Null
    /\ issued' = issued + 1
    /\ inFlight' = Append(inFlight, [id |-> issued + 1, payload |-> AnalyzePayload])
    /\ UNCHANGED <<analysisData, activeResultTab, displayed>>

\* the responses of the analysis service: the benchmarks, with the custom
\* candidate, with the Excel candidate
PanelResults ==
    { <<K44Candidate, AESCandidate>>,
      <<K44Candidate, AESCandidate, CustomCandidate>>,
      <<K44Candidate, AESCandidate, ExcelCandidate>> }

\* inFlight without its i-th request
Answered(i) == SubSeq(inFlight, 1, i - 1) \o SubSeq(inFlight, i + 1, Len(inFlight))

\* a response that leaves the active tab as it is
handleAnalyzeSuccessKeepsTab(i, results) ==
    /\ i \in 1..Len(inFlight)
    /\ analysisData' = Some([results |-> results])
    /\ loading' = FALSE
    /\ displayed' = inFlight[i].id
    /\ inFlight' = Answered(i)
    /\ UNCHANGED <<error, issued, activeResultTab>>

\* handleAnalyze from the await on, the request answered: try and finally
handleAnalyzeSuccess(i, results) ==
    /\ i \in 1..Len(inFlight)
    /\ analysisData' = Some([results |-> results])
    /\ activeResultTab' = "comparison"
    /\ loading' = FALSE
    /\ displayed' = inFlight[i].id
    /\ inFlight' = Answered(i)
    /\ UNCHANGED <<error, issued>>

\* a failure without the finally block
handleAnalyzeFailureNoFinally(i) ==
    /\ i \in 1..Len(inFlight)
    /\ error' = Some("Failed to analyze")
    /\ inFlight' = Answered(i)
    /\ UNCHANGED <<loading, analysisData, activeResultTab, issued, displayed>>

\* handleAnalyze from the await on, the request failed: catch and finally
handleAnalyzeFailure(i) ==
    /\ i \in 1..Len(inFlight)
    /\ error' = Some("Failed to analyze")
    /\ loading' = FALSE
    /\ inFlight' = Answered(i)
    /\ UNCHANGED <<analysisData, activeResultTab, issued, displayed>>

\* getTabData: the results of the scenario, or none
HasResult(scenario) ==
    /\ analysisData # Null
    /\ FindScenario(analysisData[1].results, scenario) # 0

ResultTabs == {"comparison", "custom", "k44", "aes", "excel"}

\* every tab button rendered with analysisData
TabButtonAlways(tab) == analysisData # Null

\* the tab buttons are rendered with analysisData, the custom and the excel
\* button only with a result of their scenario
TabButtonRendered(tab) ==
    /\ analysisData # Null
    /\ tab = "custom" => HasResult("Custom")
    /\ tab = "excel" => HasResult("Excel S-box")

\* onClick={() => setActiveResultTab(tab)}
setActiveResultTab(tab) ==
    /\ TabButtonRendered(tab)
    /\ activeResultTab' = tab
    /\ UNCHANGED <<loading, analysisData, error, inFlight, issued, displayed>>

\* what the handlers of the panel leave alone
panelFrame == <<appVars, compareVars, functionVars, imageVars, textVars>>

InitPanel == AppInit /\ ComponentsInit /\ CompareIdle /\ FunctionsIdle

NextPanel ==
    \/ handleAnalyze /\ UNCHANGED panelFrame
    \/ \E i \in 1..MaxRequests, results \in PanelResults :
         handleAnalyzeSuccess(i, results) /\ UNCHANGED panelFrame
    \/ \E i \in 1..MaxRequests : handleAnalyzeFailure(i) /\ UNCHANGED panelFrame
    \/ \E tab \in ResultTabs : setActiveResultTab(tab) /\ UNCHANGED panelFrame
    \/ \E tab \in Tabs :
         handleTabChange(tab) /\ UNCHANGED viewVars

\* the control panel, with the configuration changed by the tabs above it
SpecPanel == InitPanel /\ [][NextPanel]_vars

\* ------------------------------------------------------------------------
\* ImageEncryption handlers
\* ------------------------------------------------------------------------

\* the key strings the user types: empty, a space, "0", "g"
ToolKeys == {<<>>, <<32>>, <<48>>, <<103>>}

\* str.trim()
RECURSIVE trim(_)
trim(str) ==
    IF str = <<>> THEN <<>>
    ELSE IF Head(str) \in WhiteSpaceUnits THEN trim(Tail(str))
    ELSE IF str[Len(str)] \in WhiteSpaceUnits THEN trim(SubSeq(str, 1, Len(str) - 1))
    ELSE str

\* !str
IsEmptyString(str) == str = <<>>

\* the test of the string as it is, not trimmed
IsBlankUntrimmed(str) == str = <<>>

\* !str.trim()
IsBlank(str) == trim(str) = <<>>

Modes == {"encrypt", "decrypt"}

ImageSboxes == {"K44", "AES_Standard", "Excel"}

\* handleClear of ImageEncryption
imageHandleClear ==
    /\ imageFile' = FALSE
    /\ imageKey' = <<>>
    /\ imageError' = Null
    /\ UNCHANGED <<imageMode, imageSbox, imageLoading, imageRequest>>

\* handleModeChange of ImageEncryption: setMode and handleClear
imageHandleModeChange(newMode) ==
    /\ imageMode' = newMode
    /\ imageFile' = FALSE
    /\ imageKey' = <<>>
    /\ imageError' = Null
    /\ UNCHANGED <<imageSbox, imageLoading, imageRequest>>

\* handleSboxChange of ImageEncryption; the Excel button is disabled without
\* customSboxData
imageHandleSboxChange(sbox) ==
    /\ sbox = "Excel" => customSboxData # Null
    /\ imageSbox' = sbox
    /\ UNCHANGED <<imageMode, imageFile, imageKey, imageLoading, imageError,
                   imageRequest>>

\* handleFileSelect, of an image of an allowed size or of another file
handleFileSelect(accepted) ==
    /\ IF accepted
       THEN imageFile' = TRUE /\ imageError' = Null
       ELSE imageError' = Some("Please select a valid image file") /\ UNCHANGED imageFile
    /\ UNCHANGED <<imageMode, imageSbox, imageKey, imageLoading, imageRequest>>

\* onChange={(e) => setKey(e.target.value)}
setKey(value) ==
    /\ imageKey' = value
    /\ UNCHANGED <<imageMode, imageSbox, imageFile, imageLoading, imageError,
                   imageRequest>>

\* the action button of ImageEncryption
ImageButtonEnabled == ~imageLoading /\ imageFile /\ ~IsEmptyString(imageKey)

\* handleEncrypt of ImageEncryption up to "await axios.post"
imageHandleEncrypt ==
    /\ imageMode = "encrypt"
    /\ ImageButtonEnabled
    /\ IF ~imageFile
       THEN /\ imageError' = Some("Please select an image file")
            /\ UNCHANGED <<imageLoading, imageRequest>>
       ELSE IF IsBlank(imageKey)
       THEN /\ imageError' = Some("Please enter an encryption key")
            /\ UNCHANGED <<imageLoading, imageRequest>>
       ELSE /\ imageLoading' = TRUE
            /\ imageError' = Null
            /\ imageRequest' =
                 Some([endpoint    |-> "encrypt-image",
                       key         |-> processKey(imageKey),
                       matrix_name |-> imageSbox,
                       custom_sbox_json |->
                           IF imageSbox = "Excel" /\ customSboxData # Null
                           THEN customSboxData ELSE Null])
    /\ UNCHANGED <<imageMode, imageSbox, imageFile, imageKey>>

\* handleDecrypt of ImageEncryption up to "await axios.post"
imageHandleDecrypt ==
    /\ imageMode = "decrypt"
    /\ ImageButtonEnabled
    /\ IF ~imageFile
       THEN /\ imageError' = Some("Please select an encrypted image file")
            /\ UNCHANGED <<imageLoading, imageRequest>>
       ELSE IF IsBlank(imageKey)
       THEN /\ imageError' = Some("Please enter the decryption key")
            /\ UNCHANGED <<imageLoading, imageRequest>>
       ELSE /\ imageLoading' = TRUE
            /\ imageError' = Null
            /\ imageRequest' =
                 Some([endpoint    |-> "decrypt-image",
                       key         |-> processKey(imageKey),
                       matrix_name |-> imageSbox,
                       custom_sbox_json |-> Null])
    /\ UNCHANGED <<imageMode, imageSbox, imageFile, imageKey>>

\* handleEncrypt and handleDecrypt from the await on: the try block to its
\* end, or catch, and finally
imageHandleResponse(succeeded) ==
    /\ imageRequest # Null
    /\ imageError' = IF succeeded THEN imageError ELSE Some("request failed")
    /\ imageLoading' = FALSE
    /\ imageRequest' = Null
    /\ UNCHANGED <<imageMode, imageSbox, imageFile, imageKey>>

\* ------------------------------------------------------------------------
\* EncryptionTool handlers
\* ------------------------------------------------------------------------

\* the texts the user types: none, "x"
ToolTexts == {<<>>, <<120>>}

\* handleModeChange of EncryptionTool
textHandleModeChange(newMode) ==
    /\ textMode' = newMode
    /\ textError' = Null
    /\ UNCHANGED <<inputText, keyInput, textLoading, textRequest>>

\* onChange={(e) => setInputText(e.target.value)}
setInputText(value) ==
    /\ inputText' = value
    /\ UNCHANGED <<textMode, keyInput, textLoading, textError, textRequest>>

\* onChange={(e) => setKeyInput(e.target.value)}
setKeyInput(value) ==
    /\ keyInput' = value
    /\ UNCHANGED <<textMode, inputText, textLoading, textError, textRequest>>

\* handleClear of EncryptionTool
textHandleClear ==
    /\ inputText' = <<>>
    /\ keyInput' = <<>>
    /\ textError' = Null
    /\ UNCHANGED <<textMode, textLoading, textRequest>>

\* the action button of EncryptionTool
TextButtonEnabled == ~textLoading /\ ~IsBlank(inputText) /\ ~IsBlank(keyInput)

\* handleSubmit: handleEncrypt or handleDecrypt of EncryptionTool up to
\* "await axios.post"
handleSubmit ==
    /\ TextButtonEnabled
    /\ IF IsBlank(inputText)
       THEN /\ textError' = Some(IF textMode = "encrypt" THEN "Plaintext cannot be empty"
                                 ELSE "Ciphertext cannot be empty")
            /\ UNCHANGED <<textLoading, textRequest>>
       ELSE IF IsBlank(keyInput)
       THEN /\ textError' = Some("Key cannot be empty")
            /\ UNCHANGED <<textLoading, textRequest>>
       ELSE /\ textError' = Null
            /\ textLoading' = TRUE
            /\ textRequest' =
                 Some([endpoint |-> IF textMode = "encrypt" THEN "encrypt" ELSE "decrypt",
                       key      |-> processKeyTool(keyInput),
                       text     |-> inputText])
    /\ UNCHANGED <<textMode, inputText, keyInput>>

\* handleEncrypt and handleDecrypt of EncryptionTool from the await on
textHandleResponse(succeeded) ==
    /\ textRequest # Null
    /\ textError' = IF succeeded THEN textError ELSE Some("request failed")
    /\ textLoading' = FALSE
    /\ textRequest' = Null
    /\ UNCHANGED <<textMode, inputText, keyInput>>

\* what the handlers of the image tool and of the text tool leave alone
imageFrame == <<appVars, compareVars, functionVars, panelVars, textVars>>

textFrame == <<appVars, compareVars, functionVars, panelVars, imageVars>>

InitCrypto == AppInit /\ ComponentsInit /\ CompareIdle /\ FunctionsIdle

NextCrypto ==
    \/ \E newMode \in Modes : imageHandleModeChange(newMode) /\ UNCHANGED imageFrame
    \/ \E sbox \in ImageSboxes : imageHandleSboxChange(sbox) /\ UNCHANGED imageFrame
    \/ \E accepted \in BOOLEAN : handleFileSelect(accepted) /\ UNCHANGED imageFrame
    \/ \E value \in ToolKeys : setKey(value) /\ UNCHANGED imageFrame
    \/ imageHandleClear /\ UNCHANGED imageFrame
    \/ imageHandleEncrypt /\ UNCHANGED imageFrame
    \/ imageHandleDecrypt /\ UNCHANGED imageFrame
    \/ \E succeeded \in BOOLEAN : imageHandleResponse(succeeded) /\ UNCHANGED imageFrame
    \/ \E newMode \in Modes : textHandleModeChange(newMode) /\ UNCHANGED textFrame
    \/ \E value \in ToolTexts : setInputText(value) /\ UNCHANGED textFrame
    \/ \E value \in ToolKeys : setKeyInput(value) /\ UNCHANGED textFrame
    \/ textHandleClear /\ UNCHANGED textFrame
    \/ handleSubmit /\ UNCHANGED textFrame
    \/ \E succeeded \in BOOLEAN : textHandleResponse(succeeded) /\ UNCHANGED textFrame

\* the image tool and the text tool
SpecCrypto == InitCrypto /\ [][NextCrypto]_vars

\* the files imported next to the image tool: a permutation
ImageFiles == FilesOf({"sbox_a.xlsx"}, {"identity"}, {"16x16"}, {<<>>})

NextImage ==
    \/ \E tab \in {"paper", "excel"} : handleTabChange(tab) /\ UNCHANGED viewVars
    \/ \E file \in ImageFiles : handleExcelFileSelectStart(file) /\ UNCHANGED viewVars
    \/ handleExcelFileSelectFinish /\ UNCHANGED viewVars
    \/ handleClearExcelSbox /\ UNCHANGED viewVars
    \/ \E newMode \in Modes : imageHandleModeChange(newMode) /\ UNCHANGED imageFrame
    \/ \E sbox \in ImageSboxes : imageHandleSboxChange(sbox) /\ UNCHANGED imageFrame
    \/ \E accepted \in BOOLEAN : handleFileSelect(accepted) /\ UNCHANGED imageFrame
    \/ \E value \in ToolKeys : setKey(value) /\ UNCHANGED imageFrame
    \/ imageHandleClear /\ UNCHANGED imageFrame
    \/ imageHandleEncrypt /\ UNCHANGED imageFrame
    \/ imageHandleDecrypt /\ UNCHANGED imageFrame
    \/ \E succeeded \in BOOLEAN : imageHandleResponse(succeeded) /\ UNCHANGED imageFrame

\* the image tool below an App that imports and clears an S-box
SpecImage == InitCrypto /\ [][NextImage]_vars

\* ------------------------------------------------------------------------
\* Properties of the S-box import (specification Spec)
\* ------------------------------------------------------------------------

\* C1: in every reachable state, a customSboxData that is not null holds
\* exactly 256 values, each an integer in 0..255, no two of them equal.
C1_TableIsBijection ==
    customSboxData # Null =>
        LET table == customSboxData[1]
        IN  /\ Len(table) = SboxSize
            /\ \A i \in 1..Len(table) :
                 /\ table[i].t = "number"
                 /\ ~table[i].half
                 /\ table[i].int \in 0..MaxByte
            /\ Cardinality({table[i] : i \in 1..Len(table)}) = Len(table)

\* a table is loaded, and a tab change or a preset load followed its import
C1_Witness ==
    /\ customSboxData # Null
    /\ customSboxName # Null
    /\ selectedMatrix.key # "Excel"

\* C2: the step of handleExcelFileSelect that ends an import in an error
\* leaves customSboxData, customSboxName and selectedMatrix as they were, and
\* so does the step that starts an import.
C2_FailedImportKeepsState ==
    [][ /\ (importing # Null /\ importing' = Null /\ excelError' # Null)
             => UNCHANGED <<customSboxData, customSboxName, selectedMatrix>>
        /\ (importing = Null /\ importing' # Null)
             => UNCHANGED <<customSboxData, customSboxName, selectedMatrix>> ]_vars

\* an import has failed on a table that is not bijective while another matrix
\* than the initial one was selected
C2_Witness ==
    /\ importing = Null
    /\ excelError # Null
    /\ excelError[1].kind = "NotBijective"
    /\ selectedMatrix = STANDARD_MATRIX
    /\ customSboxData = Null

\* ------------------------------------------------------------------------
\* Properties of determineWinner and calculateRanking (specification
\* SpecCompare)
\* ------------------------------------------------------------------------

\* the identities determineWinner returns
Identities == {"K44", "AES", "Custom"}

ScenarioOf(identity) ==
    CASE identity = "K44" -> "Research (K44)"
      [] identity = "AES" -> "AES S-box"
      [] OTHER            -> "Custom"

\* the results prop of the determineWinner call
CallResults == WithMetrics(candidates, metricKey, metricValues)

\* the value the call reads for an identity
CallValue(identity) == MetricOf(CallResults, ScenarioOf(identity), metricKey)

\* twice |v - 0.5|
TwiceDistance(v) == IF Twice(v) >= 1 THEN Twice(v) - 1 ELSE 1 - Twice(v)

\* v is strictly better than w: greater for a higherIsBetter metric, less for
\* a lowerIsBetter one, closer to 0.5 for a closerToHalf one
Better(policy, v, w) ==
    CASE policy = "higherIsBetter" -> Twice(v) > Twice(w)
      [] policy = "closerToHalf"   -> TwiceDistance(v) < TwiceDistance(w)
      [] OTHER                     -> Twice(v) < Twice(w)

\* the identities whose value is defined and that no defined value is
\* strictly better than
BestIdentities ==
    { id \in Identities :
        /\ IsDefined(CallValue(id))
        /\ \A o \in Identities :
             IsDefined(CallValue(o))
               => ~Better(PolicyOf(metricKey), CallValue(o), CallValue(id)) }

\* C3: whatever determineWinner returns is 'Tie', '-' or the identity of a
\* candidate of the result set; in particular it is 'Custom' only when the
\* result set holds a 'Custom' candidate.
C3_WinnerIsPresent ==
    winner # "" =>
        winner \in {"Tie", "-"}
                     \cup {id \in Identities : FindScenario(candidates, ScenarioOf(id)) # 0}

\* a call over three candidates, none of them 'Custom', has returned a benchmark
C3_Witness ==
    /\ pc = "returned"
    /\ Len(candidates) = 3
    /\ FindScenario(candidates, "Custom") = 0
    /\ PolicyOf(metricKey) = "closerToHalf"
    /\ winner = "AES"

C5_InvalidValueExcluded ==
    (/\ pc = "returned"
     /\ FindScenario(candidates, "Custom") # 0
     /\ ~IsDefined(CallValue("Custom")))
      => LET NotCustom(r) == r.scenario # "Custom"
         IN  winner = determineWinner(SelectSeq(ArrayFrom(CallResults), NotCustom), metricKey)

\* C6: a candidate determineWinner returns has a defined value, and no
\* candidate with a defined value has a strictly better one.
C6_WinnerHasBestValue ==
    (pc = "returned" /\ winner \in Identities) =>
        /\ IsDefined(CallValue(winner))
        /\ \A id \in Identities :
             IsDefined(CallValue(id))
               => ~Better(PolicyOf(metricKey), CallValue(id), CallValue(winner))

\* C7 as stated, its closerToHalf case: two benchmarks with different values
\* are not both winners, so without a third value the result is not 'Tie'.
C7_DifferentValuesNeverTie ==
    (/\ pc = "returned"
     /\ PolicyOf(metricKey) = "closerToHalf"
     /\ IsDefined(CallValue("K44"))
     /\ IsDefined(CallValue("AES"))
     /\ CallValue("Custom") = Undefined
     /\ CallValue("K44") # CallValue("AES"))
      => winner # "Tie"

\* C7, amended: the winners are compared by value for higherIsBetter and
\* lowerIsBetter metrics and by distance to 0.5 for closerToHalf metrics.  Two
\* candidates with defined values neither of which is strictly better than the
\* other (equal values, or different values at the same distance of 0.5) win
\* or lose together: neither is returned alone.  When every candidate's value
\* is defined (the custom one's may be undefined), the result is the one
\* candidate no other is strictly better than, and 'Tie' when there are more.
C7_EqualQuantityTies ==
    pc = "returned" =>
        /\ \A a, b \in Identities :
             (/\ a # b
              /\ IsDefined(CallValue(a))
              /\ IsDefined(CallValue(b))
              /\ ~Better(PolicyOf(metricKey), CallValue(a), CallValue(b))
              /\ ~Better(PolicyOf(metricKey), CallValue(b), CallValue(a)))
               => winner \notin {a, b}
        /\ (/\ IsDefined(CallValue("K44"))
            /\ IsDefined(CallValue("AES"))
            /\ (IsDefined(CallValue("Custom")) \/ CallValue("Custom") = Undefined))
             => winner = IF Cardinality(BestIdentities) = 1
                         THEN CHOOSE id \in BestIdentities : TRUE
                         ELSE "Tie"

\* the values 0 and 1 of a closerToHalf metric, both 0.5 away from 0.5, tie
C7_Witness ==
    /\ pc = "returned"
    /\ PolicyOf(metricKey) = "closerToHalf"
    /\ CallValue("K44") = Num(0)
    /\ CallValue("AES") = Num(1)
    /\ CallValue("Custom") = Undefined
    /\ winner = "Tie"

\* C8: when two candidates have the same defined value and no candidate with
\* a defined value has a strictly better one, determineWinner returns 'Tie';
\* and an iteration of calculateRanking whose winner is 'Tie' increments no
\* counter.
C8_ExactTiesAreTies ==
    [][ /\ (/\ pc = "call"
            /\ pc' = "returned"
            /\ \E a, b \in BestIdentities : a # b /\ CallValue(a) = CallValue(b))
             => winner' = "Tie"
        /\ (pc = "ranking" /\ metricIndex' = metricIndex + 1 /\ winner' = "Tie")
             => UNCHANGED <<k44Wins, aesWins, customWins>> ]_vars

\* the sum of the win counters
WinSum == k44Wins + aesWins + customWins

\* C9 as stated: when calculateRanking returns, the sum of the win counts is
\* at most the number of metrics some candidate has a defined value of, and
\* less than it when a metric resolved to 'Tie' or '-'.
C9_SumBelowDefinedMetrics ==
    pc = "ranked" =>
        /\ WinSum <= definedMetrics
        /\ unresolvedMetrics > 0 => WinSum < definedMetrics

\* C9, amended: throughout calculateRanking the sum of the win counts is the
\* number of processed metrics that resolved to a candidate; it is at most the
\* number of processed metrics some candidate has a defined value of, and less
\* than it exactly when one of these resolved to 'Tie' or '-' (a metric no
\* candidate has a value of resolves to '-' and leaves the two numbers equal).
C9_SumCountsResolvedMetrics ==
    pc \in {"ranking", "ranked"} =>
        /\ WinSum + unresolvedMetrics = metricIndex
        /\ WinSum <= definedMetrics
        /\ unresolvedDefined > 0 => WinSum < definedMetrics
        /\ unresolvedDefined = 0 => WinSum = definedMetrics

\* a ranking over metrics one of which no candidate has a value of: the sum
\* of the win counts is the number of metrics with a defined value
C9_Witness ==
    /\ pc = "ranked"
    /\ unresolvedMetrics > 0
    /\ WinSum > 0
    /\ WinSum = definedMetrics

\* the place of an entry in the ranking array before it is sorted
InputPosition(name) ==
    CASE name = "Research (K44)" -> 1
      [] name = "AES S-box"      -> 2
      [] OTHER                   -> 3

\* C10: the ranking calculateRanking returns is in descending order of wins,
\* every wins is in 0..17, and entries of equal wins are in their input order
\* (Research (K44), AES S-box, Custom).
C10_RankingOrdered ==
    pc = "ranked" =>
        LET r == ranking[1]
        IN  /\ Len(r) \in {2, 3}
            /\ \A i \in 1..Len(r) : r[i].wins \in 0..NumMetrics
            /\ \A i, j \in 1..Len(r) :
                 i < j => /\ r[i].wins >= r[j].wins
                          /\ r[i].wins = r[j].wins
                               => InputPosition(r[i].name) < InputPosition(r[j].name)

\* Custom is ranked first, before the two benchmarks of equal, positive wins
C10_Witness ==
    /\ pc = "ranked"
    /\ Len(ranking[1]) = 3
    /\ ranking[1][1].name = "Custom"
    /\ ranking[1][2].wins = ranking[1][3].wins
    /\ ranking[1][2].wins > 0

\* C11: a result set of the two benchmarks and an 'Excel S-box' candidate is
\* compared as a whole: a benchmark is not returned as the winner, alone or
\* in a tie, of a metric of which the 'Excel S-box' candidate has a strictly
\* better value than both benchmarks, and the ranking holds every candidate
\* of the result set exactly once.
C11_ExcelCandidateCompetes ==
    /\ (/\ pc = "returned"
        /\ FindScenario(candidates, "Excel S-box") # 0
        /\ IsDefined(CallValue("K44"))
        /\ IsDefined(CallValue("AES"))
        /\ LET excelVal == metricValues[FindScenario(candidates, "Excel S-box")]
           IN  /\ IsDefined(excelVal)
               /\ Better(PolicyOf(metricKey), excelVal, CallValue("K44"))
               /\ Better(PolicyOf(metricKey), excelVal, CallValue("AES")))
         => winner \notin {"K44", "AES", "Tie"}
    /\ pc = "ranked" =>
         \A c \in 1..Len(candidates) :
            Cardinality({i \in 1..Len(ranking[1]) :
                           ranking[1][i].key = candidates[c].matrix_name}) = 1

\* ------------------------------------------------------------------------
\* Properties of the validation (specification SpecValidate)
\* ------------------------------------------------------------------------

\* the cells are the integers 0..255, each once
IsPermutationTable(cells) ==
    /\ Len(cells) = SboxSize
    /\ \A i \in 1..Len(cells) : cells[i].t = "number" /\ ~cells[i].half
    /\ {cells[i].int : i \in 1..Len(cells)} = 0..MaxByte

\* C12: a readable file whose cells are a permutation of 0..255, in whatever
\* rows they are laid out, is validated without an error and the table read
\* from it is the sequence of its cells, row after row.
C12_PermutationAccepted ==
    (/\ validation # Null
     /\ pickedFile[1].readable
     /\ IsPermutationTable(Cells(pickedFile[1])))
      => validation[1] = [error |-> NoError, flatArray |-> Cells(pickedFile[1])]

\* a permutation that is not the identity, in ragged rows, has been accepted
C12_Witness ==
    /\ validation # Null
    /\ pickedFile[1].base = "affine"
    /\ pickedFile[1].shape = "ragged"
    /\ validation[1].error = NoError
    /\ validation[1].flatArray[1] = Num(3)

\* the cleaned, flattened sequence of the picked file
PickedSequence == FlattenSheet(jsonData(pickedFile[1]))

\* C13: when the cleaned, flattened sequence of a readable file has a length
\* other than 256, the validation fails with the count error, the error
\* reports the actual length, and no table is accepted.
C13_WrongCountReported ==
    (/\ validation # Null
     /\ pickedFile[1].readable
     /\ Len(PickedSequence) # SboxSize)
      => /\ validation[1].error.kind = "MalformedCount"
         /\ validation[1].error.count = Len(PickedSequence)
         /\ validation[1].error # NoError

\* a table of 255 entries has been reported as one of 255
C13_Witness ==
    /\ validation # Null
    /\ pickedFile[1].readable
    /\ Len(Cells(pickedFile[1])) = SboxSize - 1
    /\ validation[1].error.kind = "MalformedCount"
    /\ validation[1].error.count = SboxSize - 1

\* an integer of 0..255
IsByte(x) == x.t = "number" /\ ~x.half /\ x.int \in 0..MaxByte

RepeatPositions(seq) ==
    {i \in 1..Len(seq) : \E j \in 1..(i - 1) : seq[j] = seq[i]}

\* the k-th of the positions in the set
RepeatPosition(positions, k) ==
    CHOOSE i \in positions : Cardinality({j \in positions : j < i}) = k - 1

\* C15: when the sequence has 256 integers of 0..255 and fewer than 256
\* distinct values, the validation fails with the bijectivity error, which
\* lists the values met again in the order they are met again, the first
\* five at most, with an ellipsis exactly when there are more than five.
C15_DuplicatesListed ==
    (/\ validation # Null
     /\ pickedFile[1].readable
     /\ LET seq == PickedSequence
        IN  /\ Len(seq) = SboxSize
            /\ \A i \in 1..SboxSize : IsByte(seq[i])
            /\ Cardinality({seq[i] : i \in 1..SboxSize}) < SboxSize)
      => LET seq   == PickedSequence
             again == RepeatPositions(seq)
             n     == Cardinality(again)
             shown == IF n > MaxDuplicatesShown THEN MaxDuplicatesShown ELSE n
             err   == validation[1].error
         IN  /\ err.kind = "NotBijective"
             /\ Len(err.duplicates) = shown
             /\ \A k \in 1..shown : err.duplicates[k] = seq[RepeatPosition(again, k)]
             /\ err.ellipsis <=> n > MaxDuplicatesShown

\* a table with two entries equal to 5 has been rejected with 5 listed
C15_Witness ==
    /\ validation # Null
    /\ pickedFile[1].readable
    /\ LET seq == PickedSequence
       IN  /\ Len(seq) = SboxSize
           /\ Cardinality({i \in 1..SboxSize : seq[i] = Num(5)}) = 2
    /\ validation[1].error.kind = "NotBijective"
    /\ validation[1].error.duplicates = <<Num(5)>>
    /\ ~validation[1].error.ellipsis

\* ------------------------------------------------------------------------
\* Properties of a successful import (specification Spec)
\* ------------------------------------------------------------------------

\* C16: the step of handleExcelFileSelect that ends an import whose file
\* passes the validation leaves as customSboxData the cleaned sequence of that
\* file and nothing else, as customSboxName the name of that file, and as
\* selectedMatrix the configuration of key 'Excel' that bears this name.
C16_ImportReplacesTable ==
    [][ (/\ importing # Null
         /\ importing' = Null
         /\ ValidationOf(importing[1].file).error = NoError)
          => LET file == importing[1].file
             IN  /\ customSboxData' = Some(FlattenSheet(jsonData(file)))
                 /\ customSboxName' = Some(file.name)
                 /\ selectedMatrix'.key = "Excel"
                 /\ selectedMatrix'.name = file.name ]_vars

\* the reversed table of the second file has been imported and selected
C16_Witness ==
    /\ importing = Null
    /\ excelError = Null
    /\ customSboxName = Some("sbox_b.xlsx")
    /\ customSboxData # Null
    /\ customSboxData[1][1] = Num(MaxByte)
    /\ selectedMatrix.key = "Excel"
    /\ selectedMatrix.name = "sbox_b.xlsx"

\* ------------------------------------------------------------------------
\* Properties of processKey (specification SpecKey)
\* ------------------------------------------------------------------------

\* 32 characters of 0..9 and A..F
IsKey(str) ==
    /\ Len(str) = KeyLength
    /\ \A i \in 1..Len(str) : str[i] \in (48..57) \cup (65..70)

\* C17: whatever the string, of hex digits, of other characters, of white
\* space, with units above 0xFF or empty, each call of processKey returns 32
\* characters of 0..9 and A..F, and two calls on the same string return the
\* same.
C17_AlwaysAKey ==
    /\ processedKey # Null => IsKey(processedKey[1])
    /\ processedAgain # Null => IsKey(processedAgain[1])
    /\ (processedKey # Null /\ processedAgain # Null) => processedKey = processedAgain

\* both calls have returned on a string with a unit above 0xFF
C17_Witness ==
    /\ processedKey # Null
    /\ processedAgain # Null
    /\ givenKey[1] # <<>>
    /\ givenKey[1][1] > MaxByte
    /\ IsKey(processedKey[1])

\* the string without its white space, in upper case
Remainder(str) ==
    LET NotSpace(c) == c \notin WhiteSpaceUnits
        kept == SelectSeq(str, NotSpace)
    IN  ArrayFrom([i \in 1..Len(kept) |-> UpperUnit(kept[i])])

\* only 0..9 and A..F
IsHex(str) == \A i \in 1..Len(str) : str[i] \in (48..57) \cup (65..70)

\* the string filled with '0' up to the length of a key, or cut to it
FitToKey(str) ==
    IF Len(str) < KeyLength
    THEN str \o ArrayFrom([i \in 1..(KeyLength - Len(str)) |-> 48])
    ELSE SubSeq(str, 1, KeyLength)

\* C18: when the string without its white space, in upper case, has hex
\* digits only, processKey returns it filled with '0' to 32 characters when
\* it is shorter and its first 32 characters when it is longer.
C18_HexPaddedOrTruncated ==
    (processedKey # Null /\ IsHex(Remainder(givenKey[1])))
      => processedKey[1] = FitToKey(Remainder(givenKey[1]))

\* a hex string of 33 characters has been cut to its first 32
C18_Witness ==
    /\ processedKey # Null
    /\ givenKey[1] = CanonicalKey \o <<48>>
    /\ processedKey[1] = CanonicalKey

\* the code point of an element of Array.from
CodePoint(char) ==
    IF Len(char) = 2
    THEN 65536 + (char[1] - 55296) * 1024 + (char[2] - 56320)
    ELSE char[1]

\* the two hex digits of a number below 256, in upper case
TwoHexDigits(n) ==
    <<UpperUnit(HexDigitUnit(n \div 16)), UpperUnit(HexDigitUnit(n % 16))>>

\* C19: when the string without its white space, in upper case, has a
\* character that is no hex digit, processKey returns the encoding of the
\* string as it was given, white space included: every character has two
\* hex digits that write its code point, and these, one character after the
\* other, in upper case, filled with '0' to 32 characters or cut to 32, are
\* the result.
C19_TextEncodedTwoDigits ==
    (processedKey # Null /\ ~IsHex(Remainder(givenKey[1])))
      => LET chars == ArrayFromString(givenKey[1])
         IN  /\ \A i \in 1..Len(chars) : CodePoint(chars[i]) <= MaxByte
             /\ processedKey[1] =
                  FitToKey(join([i \in 1..Len(chars) |-> TwoHexDigits(CodePoint(chars[i]))]))

\* the same for the strings whose characters all lie below 0x100
C19_TextEncodedBelow256 ==
    (/\ processedKey # Null
     /\ ~IsHex(Remainder(givenKey[1]))
     /\ \A i \in 1..Len(givenKey[1]) : givenKey[1][i] <= MaxByte)
      => LET chars == ArrayFromString(givenKey[1])
         IN  processedKey[1] =
               FitToKey(join([i \in 1..Len(chars) |-> TwoHexDigits(CodePoint(chars[i]))]))

\* "secret" has been encoded
C19_SecretEncoded ==
    /\ processedKey # Null
    /\ givenKey[1] = SecretKey
    /\ processedKey[1] = <<55, 51, 54, 53, 54, 51, 55, 50, 54, 53, 55, 52>>
                           \o ArrayFrom([i \in 1..20 |-> 48])

\* the string of the one character U+0100 has been encoded with three digits
C19_ThreeDigits ==
    /\ processedKey # Null
    /\ givenKey[1] = <<256>>
    /\ processedKey[1] = <<49, 48, 48>> \o ArrayFrom([i \in 1..29 |-> 48])

\* C20: processKey returns 32 times '0' for the empty string and for a
\* string of white space only.
C20_BlankGivesZeroKey ==
    (/\ processedKey # Null
     /\ \A i \in 1..Len(givenKey[1]) : givenKey[1][i] \in WhiteSpaceUnits)
      => processedKey[1] = ArrayFrom([i \in 1..KeyLength |-> 48])

\* a space and a tab have given the key of zeros
C20_Witness ==
    /\ processedKey # Null
    /\ givenKey[1] = <<32, 9>>
    /\ processedKey[1] = ArrayFrom([i \in 1..KeyLength |-> 48])

\* C21: processKey applied to a key it has returned returns that key: a
\* string of 32 upper-case hex digits is left as it is, so that
\* processKey(processKey(x)) = processKey(x) for every string x.
C21_Idempotent ==
    renormalized # Null => renormalized = processedKey

\* the key made of a text with a unit above 0xFF, which holds the digit D,
\* has been given to processKey again
C21_Witness ==
    /\ renormalized # Null
    /\ givenKey[1] = <<55357, 103>>
    /\ renormalized[1][1] = 68
    /\ renormalized = processedKey

\* C30: the processKey of the image tool and the processKey of the text tool
\* return the same key for every string.
C30_CopiesAgree ==
    (processedKey # Null /\ toolKey # Null) => toolKey = processedKey

\* both copies have encoded a text with white space in it
C30_Witness ==
    /\ processedKey # Null
    /\ toolKey # Null
    /\ givenKey[1] = <<103, 32>>
    /\ toolKey[1] = <<54, 55, 50, 48>> \o ArrayFrom([i \in 1..28 |-> 48])
    /\ toolKey = processedKey

\* ------------------------------------------------------------------------
\* Further properties of the validation (specification SpecValidate)
\* ------------------------------------------------------------------------

\* C23: the checks run in the order count, range, bijectivity and the first
\* that fails decides the error: a sequence of another length than 256 fails
\* with the count error also when it holds values out of range or repeated
\* values, and a sequence of 256 entries with a value out of range fails with
\* the range error also when it holds repeated values.
C23_FirstFailingCheckDecides ==
    (validation # Null /\ pickedFile[1].readable)
      => LET seq     == PickedSequence
             invalid == \E i \in 1..Len(seq) : ~IsByte(seq[i])
             repeats == Cardinality({seq[i] : i \in 1..Len(seq)}) < Len(seq)
             kind    == validation[1].error.kind
         IN  /\ Len(seq) # SboxSize => kind = "MalformedCount"
             /\ (Len(seq) = SboxSize /\ invalid) => kind = "OutOfRange"
             /\ (Len(seq) = SboxSize /\ ~invalid /\ repeats) => kind = "NotBijective"
             /\ (Len(seq) = SboxSize /\ ~invalid /\ ~repeats) => kind = "none"

\* a sequence of 256 entries with repeated values and a value out of range
\* has failed with the range error
C23_Witness ==
    /\ validation # Null
    /\ pickedFile[1].readable
    /\ LET seq == PickedSequence
       IN  /\ Len(seq) = SboxSize
           /\ \E i \in 1..Len(seq) : ~IsByte(seq[i])
           /\ Cardinality({seq[i] : i \in 1..Len(seq)}) < Len(seq) - 1
    /\ validation[1].error.kind = "OutOfRange"

\* a sequence of 257 entries, one of them out of range, has failed with the
\* count error
C23_WitnessCount ==
    /\ validation # Null
    /\ pickedFile[1].readable
    /\ LET seq == PickedSequence
       IN  /\ Len(seq) = SboxSize + 1
           /\ \E i \in 1..Len(seq) : ~IsByte(seq[i])
    /\ validation[1].error.kind = "MalformedCount"

\* the cells that are dropped: undefined, null, the empty string and the
\* strings whose parse in base 10 is not a number
IsDropped(cell) ==
    \/ cell \in {Undefined, NullCell, Str(<<>>)}
    \/ cell.t = "string" /\ parseInt(cell.s) = NaN

\* what a cell that is not dropped contributes
Contribution(cell) == IF cell.t = "string" THEN parseInt(cell.s) ELSE cell

\* the contributions of the cells that are not dropped, in their order
Contributions(cells) ==
    LET Kept(cell) == ~IsDropped(cell)
        kept == SelectSeq(cells, Kept)
    IN  ArrayFrom([i \in 1..Len(kept) |-> Contribution(kept[i])])

\* C24: the dropped cells are not counted and make no failure: when the
\* cells that are not dropped contribute a permutation of 0..255, a string of
\* digits contributing the integer it parses to, the validation succeeds and
\* the table is these contributions in the order of the rows.
C24_DroppedCellsIgnored ==
    (/\ validation # Null
     /\ pickedFile[1].readable
     /\ IsPermutationTable(Contributions(Cells(pickedFile[1]))))
      => validation[1] = [error |-> NoError,
                          flatArray |-> Contributions(Cells(pickedFile[1]))]

\* a permutation with a string that is no number put in between has been
\* accepted
C24_Witness ==
    /\ validation # Null
    /\ pickedFile[1].shape = "ragged"
    /\ pickedFile[1].edits = <<[op |-> "ins", pos |-> 10, cell |-> Str(<<"x">>)]>>
    /\ Len(Cells(pickedFile[1])) = SboxSize + 1
    /\ validation[1].error = NoError
    /\ Len(validation[1].flatArray) = SboxSize

\* a permutation with the string " 9x" where the 9 stood has been accepted
C24_WitnessNumericString ==
    /\ validation # Null
    /\ pickedFile[1].base = "identity"
    /\ pickedFile[1].edits = <<[op |-> "set", pos |-> 10, cell |-> Str(<<" ", "9", "x">>)]>>
    /\ validation[1].error = NoError
    /\ validation[1].flatArray[10] = Num(9)

\* ------------------------------------------------------------------------
\* Properties of the control panel (specification SpecPanel)
\* ------------------------------------------------------------------------

\* C22: while one analysis request is in flight the user can trigger another
\* one, so that two requests are in flight at once and their responses
\* resolve in either order.
C22_SecondTriggerPossible ==
    (Len(inFlight) = 1 /\ issued < MaxRequests) => ENABLED handleAnalyze

\* C22, as the panel behaves: the button is disabled while a request is in
\* flight, no second request joins it, and the response that is displayed is
\* the one of the request issued last.
C22_DisplayedIsLatestIssued ==
    [][ /\ (issued' # issued) => inFlight = <<>>
        /\ (displayed' # displayed) => (displayed' = issued /\ inFlight' = <<>>) ]_vars

\* the response of a second request is displayed
C22_Witness ==
    /\ displayed = 2
    /\ issued = 2
    /\ analysisData # Null
    /\ ~loading

\* C26: at most one analysis request is in flight; loading is true exactly
\* while a request is in flight, and false again once it is answered, with a
\* result or with a failure.
C26_OneRequestInFlight ==
    /\ Len(inFlight) <= 1
    /\ loading <=> inFlight # <<>>

\* a request has failed and loading is false again
C26_Witness ==
    /\ issued = 1
    /\ inFlight = <<>>
    /\ error # Null
    /\ ~loading

\* C27: a request that fails sets the error and leaves analysisData and the
\* active tab as they are; a new request clears the error; a response
\* replaces analysisData by what the service answered and makes 'comparison'
\* the active tab.
C27_FailureKeepsResult ==
    [][ /\ (Len(inFlight') < Len(inFlight) /\ displayed' = displayed)
             => /\ error' # Null
                /\ UNCHANGED <<analysisData, activeResultTab>>
        /\ (issued' # issued) => error' = Null
        /\ (displayed' # displayed)
             => /\ analysisData' # Null
                /\ analysisData'[1].results \in PanelResults
                /\ activeResultTab' = "comparison" ]_vars

\* a request has failed while the custom tab of an earlier result was shown
C27_Witness ==
    /\ error # Null
    /\ ~loading
    /\ analysisData # Null
    /\ activeResultTab = "custom"
    /\ issued = 2
    /\ displayed = 1

\* C28: whenever the active tab is 'custom' or 'excel', analysisData holds a
\* result of the scenario 'Custom' or 'Excel S-box'.
C28_ActiveTabHasContent ==
    /\ activeResultTab = "custom"
         => (analysisData # Null
             /\ \E i \in 1..Len(analysisData[1].results) :
                   analysisData[1].results[i].scenario = "Custom")
    /\ activeResultTab = "excel"
         => (analysisData # Null
             /\ \E i \in 1..Len(analysisData[1].results) :
                   analysisData[1].results[i].scenario = "Excel S-box")

\* the excel tab is shown while a further request is in flight
C28_Witness ==
    /\ activeResultTab = "excel"
    /\ loading
    /\ analysisData # Null
    /\ \E i \in 1..Len(analysisData[1].results) :
          analysisData[1].results[i].scenario = "Excel S-box"

\* ------------------------------------------------------------------------
\* Properties of the requests (specifications SpecImage, Spec, SpecCrypto)
\* ------------------------------------------------------------------------

\* C25: a request of the image tool with the matrix_name 'Excel' carries the
\* table that is imported; so does a request of the control panel (see
\* C25_AnalyzeCarriesTable).
C25_ExcelRequestCarriesTable ==
    (imageRequest # Null /\ imageRequest[1].matrix_name = "Excel")
      => imageRequest[1].custom_sbox_json # Null

\* C25, for the control panel: in every state of the application the payload
\* handleAnalyze builds with the matrix_name 'Excel' carries the table that
\* is imported.
C25_AnalyzeCarriesTable ==
    AnalyzePayload.matrix_name = "Excel"
      => (customSboxData # Null /\ AnalyzePayload.raw_sbox = customSboxData)

\* a request to decrypt with the S-box 'Excel' is in flight while the table
\* is imported
C25_DecryptWithoutTable ==
    /\ imageRequest # Null
    /\ imageRequest[1].endpoint = "decrypt-image"
    /\ imageRequest[1].matrix_name = "Excel"
    /\ imageRequest[1].custom_sbox_json = Null
    /\ customSboxData # Null

\* a request to encrypt with the S-box 'Excel' has been sent after the table
\* was cleared
C25_EncryptAfterClear ==
    /\ imageRequest # Null
    /\ imageRequest[1].endpoint = "encrypt-image"
    /\ imageRequest[1].matrix_name = "Excel"
    /\ imageRequest[1].custom_sbox_json = Null

\* the configuration 'Excel' is selected, loaded from a preset, while no
\* table is imported
C25_PresetWithoutTable ==
    /\ selectedMatrix.key = "Excel"
    /\ customSboxData = Null
    /\ importing = Null

\* only white space, or nothing
AllWhiteSpace(str) == \A i \in 1..Len(str) : str[i] \in WhiteSpaceUnits

\* C29: the image tool and the text tool send a request only with a key
\* string that has a character other than white space, and the key of the
\* request is made of that string; handleEncrypt and handleDecrypt called
\* with a key string of white space set the error and send nothing.
C29_NoRequestFromBlankKey ==
    [][ /\ (imageRequest = Null /\ imageRequest' # Null)
             => (~AllWhiteSpace(imageKey) /\ imageRequest'[1].key = processKey(imageKey))
        /\ (textRequest = Null /\ textRequest' # Null)
             => (~AllWhiteSpace(keyInput) /\ textRequest'[1].key = processKeyTool(keyInput))
        /\ ((imageHandleEncrypt \/ imageHandleDecrypt) /\ AllWhiteSpace(imageKey))
             => (imageError' # Null /\ UNCHANGED <<imageRequest, imageLoading>>)
        /\ (handleSubmit /\ AllWhiteSpace(keyInput))
             => (textError' # Null /\ UNCHANGED <<textRequest, textLoading>>) ]_vars

\* the key of zeros is in flight, made of the key string "0"
C29_Witness ==
    /\ imageRequest # Null
    /\ imageKey = <<48>>
    /\ imageRequest[1].key = ArrayFrom([i \in 1..KeyLength |-> 48])

\* the key string of a space has been refused
C29_WitnessRefused ==
    /\ imageKey = <<32>>
    /\ imageFile
    /\ imageError = Some("Please enter the decryption key")
    /\ imageRequest = Null

====
